---- MODULE Spec2Model ----
(***************************************************************************)
(* The anonymous messaging relay: identity allocation, consume-on-read     *)
(* message delivery and the soft-delete / purge lifecycle, as implemented  *)
(* by the request handlers of src/routes/api.js, the helpers and the       *)
(* periodic cleanup job.                                                   *)
(*                                                                         *)
(* Every request handler is an async function: it runs synchronously up to *)
(* its next store call, the store applies that call atomically at some     *)
(* later moment, and the handler's continuation runs when the call         *)
(* returns.  One action of the model is one store call together with the   *)
(* continuation that follows it.  Left out of the state: __v, the          *)
(* updatedAt of the identities and senderFingerprint, which no handler     *)
(* reads back and no result depends on.  The updatedAt of a message is     *)
(* kept: the modifiedCount of an update depends on it.                     *)
(***************************************************************************)
EXTENDS Integers, Sequences, FiniteSets, TLC

VARIABLES now, nextSweep, users, messages, nextId, req, sweep, resp, delivered

vars == <<now, nextSweep, users, messages, nextId, req, sweep, resp, delivered>>

(* ------------------------------ bounds -------------------------------- *)

\* The server starts at StartTime minutes, against a store whose identities were
\* all created at minute 0, and the clock is followed for MaxTicks periods of
\* the cleanup timer.
StartTime == 15
MaxTicks == 1
\* Messages created in one behaviour: where messages are the subject, and
\* where the lifecycle of the identities is.
MaxMsgs == 2
MaxLifeMsgs == 1
\* Largest page and limit a receive is asked for.
MaxPage == 2
MaxLimit == 2
\* A very large limit.
BigLimit == 1000

(* -------------------------- program constants ------------------------- *)

GraceMinutes == 2
InactiveMinutes == 15
SweepMinutes == 5
maxAttempts == 10
maxlength == 1000
\* Math.min(50, ...) of parsePagination, the one cap on a limit in the source.
PageLimitMax == 50

\* The clock is read once per period of the cleanup timer.
TickMinutes == SweepMinutes

(* ------------------------------- data --------------------------------- *)

Digits == {"0", "1", "2", "3", "4", "5", "6", "7", "8", "9"}

IdA == <<"1", "0", "0", "0", "0", "1">>
IdB == <<"2", "0", "0", "0", "0", "2">>
BadId == <<"1", "2", "3", "4", "5">>
LongId == <<"1", "0", "0", "0", "0", "0", "1">>
AlphaId == <<"1", "0", "0", "a", "0", "1">>
NoId == << >>

\* The codes of the model's universe and the ids a request may carry.
Codes == {IdA, IdB}
RequestIds == Codes \cup {BadId}
BadIds == {BadId, LongId, AlphaId}

Slots == {1, 2}

NoDate == -1
NoReason == "none"

\* The reasons a client gives for a deletion, and a string that is none of
\* them: req.body.reason is stored as it comes.
Reasons == {"manual", "beacon"}
OtherReason == "other"

\* Message bodies as character sequences.
Hi == <<"h", "i">>
Blank == <<" ">>
Contents == {Hi, Blank}
\* The body of a request that carries no content, or an empty one.
NoContent == << >>

\* n copies of one character, and n characters none of which repeats its
\* neighbour.
Repeated(ch, n) == [k \in 1..n |-> ch]
Mixed(n) == [k \in 1..n |-> IF k % 2 = 1 THEN "a" ELSE "b"]

\* Bodies at the limits of the validation: the longest message and one
\* character more, padded and not; a character ten, eleven and twelve times; a
\* run of line breaks; URLs; runs of white space inside and around a text.
ContentCases ==
    {NoContent, Blank, Hi,
     Mixed(maxlength), Mixed(maxlength + 1),
     <<" ">> \o Mixed(maxlength) \o <<" ", "\n">>,
     Repeated("a", 10), Repeated("a", 11), Repeated("a", 12),
     <<"x">> \o Repeated("a", 11) \o <<"y">>,
     <<"a">> \o Repeated("\n", 11) \o <<"b">>,
     <<"h", "t", "t", "p", ":", "/", "/", "x">>,
     <<"s", "e", "e", " ", "H", "T", "T", "P", "S", ":", "/", "/", "x", " ", "!">>,
     <<" ", "a", " ", "b", " ">>,
     <<"a", " ", " ", "b">>,
     <<"a", "\t", "\n", "b">>}

\* /^\d{6}$/
isValidId(id) == Len(id) = 6 /\ \A k \in 1..6 : id[k] \in Digits

\* validateUserId: the id parameter of the route must be six digits.
validateUserId(id) == id # NoId /\ isValidId(id)

\* Math.floor(100000 + Math.random() * 900000).toString()
generateRandomId == {c \in Codes : c[1] # "0"}

\* The white space and line terminators of String.prototype.trim and of \s.
IsSpace(ch) == ch \in {" ", "\t", "\n", "\r"}

\* What the dot of a regular expression matches: anything but a line terminator.
Dot(ch) == ch \notin {"\n", "\r"}

\* The i flag: letters compare without case.
Lower(ch) ==
    CASE ch = "H" -> "h" [] ch = "T" -> "t" [] ch = "P" -> "p" [] ch = "S" -> "s"
      [] OTHER -> ch

RECURSIVE TrimLeft(_)
TrimLeft(s) == IF s # << >> /\ IsSpace(Head(s)) THEN TrimLeft(Tail(s)) ELSE s

RECURSIVE TrimRight(_)
TrimRight(s) ==
    IF s # << >> /\ IsSpace(s[Len(s)]) THEN TrimRight(SubSeq(s, 1, Len(s) - 1)) ELSE s

Trim(s) == TrimRight(TrimLeft(s))

\* /(.)\1{10,}/ : some character followed by ten or more copies of itself.
HasRepeats(s) ==
    \E k \in 1..Len(s) :
        k + 10 <= Len(s) /\ Dot(s[k]) /\ \A j \in 1..10 : s[k + j] = s[k]

\* /https?:\/\/[^\s]+/i
HasUrl(s) ==
    LET low == [k \in 1..Len(s) |-> Lower(s[k])] IN
    \E k \in 1..Len(s) :
        \E e \in {k + 7, k + 8} :
            /\ e <= Len(s)
            /\ ~IsSpace(s[e])
            /\ \/ e = k + 7 /\ SubSeq(low, k, k + 6) = <<"h", "t", "t", "p", ":", "/", "/">>
               \/ e = k + 8 /\ SubSeq(low, k, k + 7) = <<"h", "t", "t", "p", "s", ":", "/", "/">>

validateMessage(content) ==
    LET trimmed == Trim(content) IN
    IF content = << >> THEN [valid |-> FALSE, content |-> << >>]
    ELSE IF Len(trimmed) = 0 THEN [valid |-> FALSE, content |-> << >>]
    ELSE IF Len(trimmed) > maxlength THEN [valid |-> FALSE, content |-> << >>]
    ELSE IF HasRepeats(trimmed) \/ HasUrl(trimmed) THEN [valid |-> FALSE, content |-> << >>]
    ELSE [valid |-> TRUE, content |-> trimmed]

(* --------------------------- Identity Store --------------------------- *)

\* new User({ id }): the schema defaults.  The field since is history, not a
\* field of the schema: the markedAt the document was given when it went from
\* unmarked to marked.
NewUser(ts) ==
    [createdAt |-> ts, lastActive |-> ts, markedForDeletion |-> FALSE,
     markedAt |-> NoDate, deleteReason |-> NoReason, since |-> NoDate]

\* A lookup that does not see identities marked for deletion.
HasUserLive(us, c) == us[c] # << >> /\ ~us[c][1].markedForDeletion

\* A lookup that takes every well-formed code for a stored identity.
HasUserAlways(us, c) == TRUE

\* A lookup that finds no document at all.
HasUserNever(us, c) == FALSE

\* User.findOne({ id }) found a document.
HasUser(us, c) == us[c] # << >>

\* The schema without unique: true on id: save() never refuses a document.
DuplicateKeyNoIndex(us, c) == FALSE

\* The unique index on id refuses a second document with the same id.
DuplicateKey(us, c) == us[c] # << >>

\* user.save() of a new document, the index permitting.
InsertUser(us, c, ts) == [us EXCEPT ![c] = Append(@, NewUser(ts))]

\* An update of lastActive that also clears the deletion mark.
TouchUserRevive(us, c, ts) ==
    IF us[c] = << >> THEN us
    ELSE [us EXCEPT ![c][1].lastActive = ts, ![c][1].markedForDeletion = FALSE]

\* User.findOneAndUpdate({ id }, { lastActive }): the first match, if any.
TouchUser(us, c, ts) ==
    IF us[c] = << >> THEN us ELSE [us EXCEPT ![c][1].lastActive = ts]

MarkDoc(d, ts, reason) ==
    [d EXCEPT !.markedForDeletion = TRUE, !.markedAt = ts, !.deleteReason = reason,
              !.since = IF d.markedForDeletion THEN d.since ELSE ts]

\* User.findOneAndUpdate({ id }, { markedForDeletion, markedAt, deleteReason })
MarkUser(us, c, ts, reason) ==
    IF us[c] = << >> THEN us ELSE [us EXCEPT ![c][1] = MarkDoc(@, ts, reason)]

\* User.updateMany({ id: { $in: ids } }, { markedForDeletion, markedAt, deleteReason })
MarkMany(us, ids, ts) ==
    [c \in Codes |->
        IF c \in ids
        THEN [k \in 1..Len(us[c]) |-> MarkDoc(us[c][k], ts, "inactivity")]
        ELSE us[c]]

\* A deleteOne whose filter matches nothing.
DeleteOneUserNone(us, c) == us

\* User.deleteOne({ id })
DeleteOneUser(us, c) == [us EXCEPT ![c] = IF @ = << >> THEN @ ELSE Tail(@)]

\* User.find({ markedForDeletion: true, markedAt: { $lt: cutoff } })
SoftDeleted(us, cutoff) ==
    {c \in Codes : \E k \in 1..Len(us[c]) :
        us[c][k].markedForDeletion /\ us[c][k].markedAt # NoDate /\ us[c][k].markedAt < cutoff}

\* User.find({ lastActive: { $lt: cutoff }, markedForDeletion: { $ne: true } })
Inactive(us, cutoff) ==
    {c \in Codes : \E k \in 1..Len(us[c]) :
        us[c][k].lastActive < cutoff /\ ~us[c][k].markedForDeletion}

(* --------------------------- Message Store ---------------------------- *)

\* new Message({ senderId, recipientId, content, timestamp }) with the schema
\* defaults; timestamps: true adds updatedAt at save.
NewMessage(id, from, to, content, ts) ==
    [id |-> id, senderId |-> from, recipientId |-> to, content |-> content,
     timestamp |-> ts, isRead |-> FALSE, updatedAt |-> ts]

\* The cascade filter with its senderId branch left out.
OfUserRecipient(ms, c) == {m \in ms : m.recipientId = c}

\* { $or: [{ senderId: c }, { recipientId: c }] }
OfUser(ms, c) == {m \in ms : m.senderId = c \/ m.recipientId = c}

\* The query built without its isRead filter.
MatchingAll(ms, rid, unreadOnly) == {m \in ms : m.recipientId = rid}

\* { recipientId } or { recipientId, isRead: false }
Matching(ms, rid, unreadOnly) ==
    {m \in ms : m.recipientId = rid /\ (unreadOnly => ~m.isRead)}

\* A filter that matches every document.
WithIdsAll(ms, ids) == ms

\* A filter that matches no document.
WithIdsNone(ms, ids) == {}

\* { _id: { $in: ids } }
WithIds(ms, ids) == {m \in ms : m.id \in ids}

IdsOf(q) == {q[k].id : k \in 1..Len(q)}

\* .sort({ timestamp: -1 }): every order of ms by descending timestamp.
Sorted(ms) ==
    {q \in [1..Cardinality(ms) -> ms] :
        /\ \A i, j \in 1..Cardinality(ms) : i # j => q[i] # q[j]
        /\ \A i, j \in 1..Cardinality(ms) : i < j => q[i].timestamp >= q[j].timestamp}

\* .limit(n): 0 is no limit, a negative n stands for its absolute value.
Limited(q, n) ==
    IF n = 0 THEN q
    ELSE LET a == IF n < 0 THEN 0 - n ELSE n IN SubSeq(q, 1, IF a < Len(q) THEN a ELSE Len(q))

\* .skip(k)
Skipped(q, k) == IF k >= Len(q) THEN << >> ELSE SubSeq(q, k + 1, Len(q))

\* Message.find(query).sort({ timestamp: -1 }).skip(skip).limit(limit)
FindPage(ms, skip, limit) == {Limited(Skipped(q, skip), limit) : q \in Sorted(ms)}

\* Math.ceil(a / b) for b > 0.
Ceil(a, b) == IF a >= 0 THEN (a + b - 1) \div b ELSE 0 - ((0 - a) \div b)

\* What JSON makes of NaN and Infinity: null.
NotANumber == -999

\* Math.ceil(remainingMessages / parseInt(limit)), any limit.
TotalPages(a, limit) ==
    IF limit = 0 THEN NotANumber
    ELSE IF limit > 0 THEN Ceil(a, limit)
    ELSE Ceil(0 - a, 0 - limit)

(* ------------------------- requests in flight ------------------------- *)

\* A handler between two store calls: its parameters, its local variables, and
\* a record of what it has done to the stores so far (solo, made, created,
\* touched, removed, purged, seen, pre, was, held, tried are history, not
\* program state; held is the set of codes stored when an allocation was
\* called and tried the candidates it found taken).
NoUsers == [c \in Codes |-> << >>]

Idle ==
    [op |-> "idle", pc |-> "idle", id |-> NoId, id2 |-> NoId, content |-> << >>,
     immediate |-> FALSE, reason |-> NoReason, form |-> FALSE, given |-> NoReason,
     page |-> 0, limit |-> 0,
     unread |-> FALSE, ids |-> {}, ts |-> NoDate, stamp |-> NoDate, i |-> 0,
     sender |-> "?", recipient |-> "?", sel |-> << >>, hasSel |-> FALSE,
     total |-> -1, n |-> 0,
     solo |-> FALSE, made |-> {}, created |-> {}, touched |-> {}, removed |-> {},
     purged |-> {}, seen |-> {}, pre |-> {}, was |-> NoUsers, held |-> {},
     tried |-> {}]

\* What a response keeps of the handler: its parameters and its history.
Done(r) ==
    [r EXCEPT !.pc = "done", !.ts = NoDate, !.stamp = NoDate, !.i = 0, !.sender = "?",
              !.recipient = "?", !.sel = << >>, !.hasSel = FALSE, !.total = -1, !.n = 0]

\* formatResponse(success, data, error, code) with its HTTP status.
Resp(s, r, status, code) ==
    [slot |-> s, r |-> Done(r), status |-> status, code |-> code, n |-> 0, flag |-> FALSE,
     msgs |-> << >>, total |-> 0, pages |-> 0, more |-> FALSE, limit |-> 0,
     unreadCount |-> -1, mid |-> 0, date |-> NoDate]

NoResp == Resp(0, Idle, 0, "none")

IdleSweep == [pc |-> "idle", cutoff |-> NoDate, list |-> {}, cur |-> NoId, ts |-> NoDate,
              solo |-> FALSE]

Quiet(s) == sweep.pc = "idle" /\ \A t \in Slots \ {s} : req[t].pc = "idle"

\* A handler is entered and issues its first store call.
Begin(s, r) ==
    /\ req' = [t \in Slots |->
                 IF t = s
                 THEN [r EXCEPT !.solo = Quiet(s), !.seen = delivered,
                                !.pre = IF Quiet(s) THEN messages ELSE {},
                                !.was = IF Quiet(s) THEN users ELSE NoUsers]
                 ELSE [req[t] EXCEPT !.solo = FALSE, !.pre = {}, !.was = NoUsers]]
    /\ sweep' = [sweep EXCEPT !.solo = FALSE]
    /\ resp' = NoResp

\* A handler answers before any store call (a validation failure).
Reject(s, r, status, code) ==
    /\ resp' = Resp(s, [r EXCEPT !.solo = Quiet(s), !.seen = delivered,
                                 !.pre = IF Quiet(s) THEN messages ELSE {},
                                 !.was = IF Quiet(s) THEN users ELSE NoUsers], status, code)
    /\ UNCHANGED <<req, sweep>>

\* The continuation issues the next store call.
Step(s, r) ==
    /\ req' = [req EXCEPT ![s] = r]
    /\ resp' = NoResp
    /\ UNCHANGED sweep

\* The continuation sends the response.
Finish(s, response) ==
    /\ req' = [req EXCEPT ![s] = Idle]
    /\ resp' = response
    /\ UNCHANGED sweep

At(s, op, pc) == req[s].op = op /\ req[s].pc = pc

(* ----------------------------- the clock ------------------------------ *)

\* Time passes.  The cleanup timer fires when it is due: time does not pass
\* over a firing that has not happened.
Tick ==
    /\ now + TickMinutes <= StartTime + MaxTicks * TickMinutes
    /\ now < nextSweep
    /\ now' = now + TickMinutes
    /\ resp' = NoResp
    /\ UNCHANGED <<nextSweep, users, messages, nextId, req, sweep, delivered>>

(* ------------------------ GET /generate-id ---------------------------- *)

GenerateId(s) ==
    /\ req[s].pc = "idle"
    /\ \E cand \in generateRandomId :
          Begin(s, [Idle EXCEPT !.op = "generate", !.pc = "findOne", !.id = cand,
                                !.held = {c \in Codes : users[c] # << >>}])
    /\ UNCHANGED <<now, nextSweep, users, messages, nextId, delivered>>

\* A loop that never gives up.
MoreAttemptsAlways(i) == TRUE

\* for (let i = 0; i < maxAttempts; i++): after pass i there is another pass.
MoreAttempts(i) == i + 1 < maxAttempts

\* generateUniqueId: one pass of the loop, User.findOne({ id }).
GenerateFind(s) ==
    /\ At(s, "generate", "findOne")
    /\ LET r == [req[s] EXCEPT !.tried = IF HasUser(users, req[s].id) THEN @ \cup {req[s].id}
                                         ELSE @]
       IN
       IF ~HasUser(users, r.id)
       THEN Step(s, [r EXCEPT !.pc = "save", !.ts = now])
       ELSE IF MoreAttempts(r.i)
            THEN \E cand \in generateRandomId :
                    Step(s, [r EXCEPT !.i = r.i + 1, !.id = cand])
            ELSE Finish(s, Resp(s, r, 503, "SERVICE_UNAVAILABLE"))
    /\ UNCHANGED <<now, nextSweep, users, messages, nextId, delivered>>

\* user.save()
GenerateSave(s) ==
    /\ At(s, "generate", "save")
    /\ LET r == req[s] IN
       IF DuplicateKey(users, r.id)
       THEN /\ Finish(s, Resp(s, r, 500, "GENERATION_ERROR"))
            /\ UNCHANGED users
       ELSE /\ users' = InsertUser(users, r.id, r.ts)
            /\ Finish(s, Resp(s, [r EXCEPT !.made = {r.id}], 200, "OK"))
    /\ UNCHANGED <<now, nextSweep, messages, nextId, delivered>>

(* ------------------------ GET /check-id/:id --------------------------- *)

CheckId(s, ids) ==
    /\ req[s].pc = "idle"
    /\ \E id \in ids :
          LET r == [Idle EXCEPT !.op = "check", !.pc = "findOne", !.id = id] IN
          IF ~validateUserId(id) THEN Reject(s, r, 400, "INVALID_ID_FORMAT")
          ELSE Begin(s, r)
    /\ UNCHANGED <<now, nextSweep, users, messages, nextId, delivered>>

\* isIdAvailable
CheckIdFind(s) ==
    /\ At(s, "check", "findOne")
    /\ LET r == req[s] IN
       Finish(s, [Resp(s, r, 200, "OK") EXCEPT
                    !.flag = IF ~isValidId(r.id) THEN FALSE ELSE ~HasUser(users, r.id)])
    /\ UNCHANGED <<now, nextSweep, users, messages, nextId, delivered>>

(* ----------------------- POST /custom-id/:id -------------------------- *)

CustomId(s, ids) ==
    /\ req[s].pc = "idle"
    /\ \E id \in ids :
          LET r == [Idle EXCEPT !.op = "custom", !.pc = "findOne", !.id = id] IN
          IF ~validateUserId(id) THEN Reject(s, r, 400, "INVALID_ID_FORMAT")
          ELSE IF ~isValidId(id) THEN Reject(s, r, 400, "INVALID_FORMAT")
          ELSE Begin(s, r)
    /\ UNCHANGED <<now, nextSweep, users, messages, nextId, delivered>>

\* generateCustomId: User.findOne({ id })
CustomIdFind(s) ==
    /\ At(s, "custom", "findOne")
    /\ LET r == req[s] IN
       IF HasUser(users, r.id)
       THEN Finish(s, Resp(s, r, 409, "ID_TAKEN"))
       ELSE Step(s, [r EXCEPT !.pc = "save", !.ts = now])
    /\ UNCHANGED <<now, nextSweep, users, messages, nextId, delivered>>

\* user.save()
CustomIdSave(s) ==
    /\ At(s, "custom", "save")
    /\ LET r == req[s] IN
       IF DuplicateKey(users, r.id)
       THEN /\ Finish(s, Resp(s, r, 500, "GENERATION_ERROR"))
            /\ UNCHANGED users
       ELSE /\ users' = InsertUser(users, r.id, r.ts)
            /\ Finish(s, Resp(s, [r EXCEPT !.made = {r.id}], 200, "OK"))
    /\ UNCHANGED <<now, nextSweep, messages, nextId, delivered>>

(* ---------------------------- POST /users ------------------------------ *)

CreateUser(s, ids) ==
    /\ req[s].pc = "idle"
    /\ \E id \in ids :
          LET r == [Idle EXCEPT !.op = "create", !.pc = "findOne", !.id = id] IN
          IF id = NoId \/ ~isValidId(id) THEN Reject(s, r, 400, "INVALID_ID")
          ELSE Begin(s, r)
    /\ UNCHANGED <<now, nextSweep, users, messages, nextId, delivered>>

\* isIdAvailable
CreateUserFind(s) ==
    /\ At(s, "create", "findOne")
    /\ LET r == req[s] IN
       IF HasUser(users, r.id)
       THEN Finish(s, Resp(s, r, 409, "ID_TAKEN"))
       ELSE Step(s, [r EXCEPT !.pc = "save", !.ts = now])
    /\ UNCHANGED <<now, nextSweep, users, messages, nextId, delivered>>

\* user.save(); the catch block answers error.code 11000 with ID_TAKEN.
CreateUserSave(s) ==
    /\ At(s, "create", "save")
    /\ LET r == req[s] IN
       IF DuplicateKey(users, r.id)
       THEN /\ Finish(s, Resp(s, r, 409, "ID_TAKEN"))
            /\ UNCHANGED users
       ELSE /\ users' = InsertUser(users, r.id, r.ts)
            /\ Finish(s, [Resp(s, [r EXCEPT !.made = {r.id}], 201, "OK") EXCEPT !.date = r.ts])
    /\ UNCHANGED <<now, nextSweep, messages, nextId, delivered>>

(* -------------------- GET /users/:userId/exists ----------------------- *)

Exists(s, ids) ==
    /\ req[s].pc = "idle"
    /\ \E id \in ids :
          LET r == [Idle EXCEPT !.op = "exists", !.pc = "findOne", !.id = id] IN
          IF ~validateUserId(id) THEN Reject(s, r, 400, "INVALID_ID_FORMAT")
          ELSE Begin(s, r)
    /\ UNCHANGED <<now, nextSweep, users, messages, nextId, delivered>>

ExistsFind(s) ==
    /\ At(s, "exists", "findOne")
    /\ Finish(s, [Resp(s, req[s], 200, "OK") EXCEPT !.flag = HasUser(users, req[s].id)])
    /\ UNCHANGED <<now, nextSweep, users, messages, nextId, delivered>>

(* ------------------- PUT /users/:userId/heartbeat --------------------- *)

Heartbeat(s, ids) ==
    /\ req[s].pc = "idle"
    /\ \E id \in ids :
          LET r == [Idle EXCEPT !.op = "heartbeat", !.pc = "update", !.id = id, !.ts = now] IN
          IF ~validateUserId(id) THEN Reject(s, r, 400, "INVALID_ID_FORMAT")
          ELSE Begin(s, r)
    /\ UNCHANGED <<now, nextSweep, users, messages, nextId, delivered>>

\* User.findOneAndUpdate({ id }, { lastActive }, { new: true })
HeartbeatUpdate(s) ==
    /\ At(s, "heartbeat", "update")
    /\ LET r == req[s] IN
       IF ~HasUser(users, r.id)
       THEN /\ Finish(s, Resp(s, r, 404, "USER_NOT_FOUND"))
            /\ UNCHANGED users
       ELSE /\ users' = TouchUser(users, r.id, r.ts)
            /\ Finish(s, [Resp(s, [r EXCEPT !.touched = {r.id}], 200, "OK") EXCEPT
                            !.date = r.ts])
    /\ UNCHANGED <<now, nextSweep, messages, nextId, delivered>>

(* ----------------------- POST /messages/send --------------------------- *)

Sending == Cardinality({t \in Slots : req[t].op = "send"})

Send(s, froms, tos, contents, cap) ==
    /\ req[s].pc = "idle"
    /\ nextId + Sending <= cap
    /\ \E from \in froms, to \in tos, content \in contents :
          LET r == [Idle EXCEPT !.op = "send", !.pc = "findOne", !.id = from, !.id2 = to,
                                !.content = content]
              v == validateMessage(content)
          IN
          IF from = NoId \/ to = NoId \/ content = << >>
          THEN Reject(s, r, 400, "INVALID_REQUEST")
          ELSE IF ~isValidId(from) \/ ~isValidId(to) THEN Reject(s, r, 400, "INVALID_ID")
          ELSE IF from = to THEN Reject(s, r, 400, "INVALID_RECIPIENT")
          ELSE IF ~v.valid THEN Reject(s, r, 400, "INVALID_MESSAGE")
          ELSE Begin(s, [r EXCEPT !.content = v.content])
    /\ UNCHANGED <<now, nextSweep, users, messages, nextId, delivered>>

\* Both lookups of the Promise.all have returned.
SendFound(s, r) ==
    IF r.sender = "?" \/ r.recipient = "?" THEN Step(s, r)
    ELSE IF r.sender = "no" THEN Finish(s, Resp(s, r, 404, "SENDER_NOT_FOUND"))
    ELSE IF r.recipient = "no" THEN Finish(s, Resp(s, r, 404, "RECIPIENT_NOT_FOUND"))
    ELSE Step(s, [r EXCEPT !.pc = "save", !.ts = now])

\* User.findOne({ id: senderId })
SendFindSender(s) ==
    /\ At(s, "send", "findOne")
    /\ req[s].sender = "?"
    /\ SendFound(s, [req[s] EXCEPT !.sender = IF HasUser(users, req[s].id) THEN "yes" ELSE "no"])
    /\ UNCHANGED <<now, nextSweep, users, messages, nextId, delivered>>

\* User.findOne({ id: recipientId })
SendFindRecipient(s) ==
    /\ At(s, "send", "findOne")
    /\ req[s].recipient = "?"
    /\ SendFound(s, [req[s] EXCEPT
                        !.recipient = IF HasUser(users, req[s].id2) THEN "yes" ELSE "no"])
    /\ UNCHANGED <<now, nextSweep, users, messages, nextId, delivered>>

\* message.save()
SendSave(s) ==
    /\ At(s, "send", "save")
    /\ LET r == req[s] IN
       /\ messages' = messages \cup {NewMessage(nextId, r.id, r.id2, r.content, r.ts)}
       /\ nextId' = nextId + 1
       /\ Step(s, [r EXCEPT !.pc = "update", !.n = nextId, !.created = {nextId},
                            !.stamp = r.ts, !.ts = now])
    /\ UNCHANGED <<now, nextSweep, users, delivered>>

\* User.findOneAndUpdate({ id: recipientId }, { lastActive })
SendTouch(s) ==
    /\ At(s, "send", "update")
    /\ LET r == req[s]
           hit == IF HasUser(users, r.id2) THEN {r.id2} ELSE {}
       IN
       /\ users' = TouchUser(users, r.id2, r.ts)
       /\ Finish(s, [Resp(s, [r EXCEPT !.touched = hit], 201, "OK") EXCEPT
                        !.mid = r.n, !.date = r.stamp])
    /\ UNCHANGED <<now, nextSweep, messages, nextId, delivered>>

(* --------------------- GET /messages/:recipientId --------------------- *)

Receive(s, ids, pages, limits) ==
    /\ req[s].pc = "idle"
    /\ \E id \in ids, page \in pages, limit \in limits, unread \in BOOLEAN :
          LET r == [Idle EXCEPT !.op = "receive", !.pc = "findOne", !.id = id, !.page = page,
                                !.limit = limit, !.unread = unread] IN
          IF ~validateUserId(id) THEN Reject(s, r, 400, "INVALID_ID_FORMAT")
          ELSE Begin(s, r)
    /\ UNCHANGED <<now, nextSweep, users, messages, nextId, delivered>>

\* User.findOne({ id: recipientId })
ReceiveFindUser(s) ==
    /\ At(s, "receive", "findOne")
    /\ IF ~HasUser(users, req[s].id)
       THEN Finish(s, Resp(s, req[s], 404, "USER_NOT_FOUND"))
       ELSE Step(s, [req[s] EXCEPT !.pc = "find"])
    /\ UNCHANGED <<now, nextSweep, users, messages, nextId, delivered>>

\* Both queries of the Promise.all have returned.
ReceiveFound(s, r) ==
    IF ~r.hasSel \/ r.total < 0 THEN Step(s, r)
    ELSE Step(s, [r EXCEPT !.pc = "update", !.ts = now])

\* Message.find(query).sort().skip().limit(): the store refuses a negative
\* skip, and the rejection of the query is the rejection of the Promise.all.
ReceiveFind(s) ==
    /\ At(s, "receive", "find")
    /\ ~req[s].hasSel
    /\ LET r == req[s]
           skip == (r.page - 1) * r.limit
       IN
       IF skip < 0 THEN Finish(s, Resp(s, r, 500, "PROCESS_ERROR"))
       ELSE \E q \in FindPage(Matching(messages, r.id, r.unread), skip, r.limit) :
               ReceiveFound(s, [r EXCEPT !.sel = q, !.hasSel = TRUE])
    /\ UNCHANGED <<now, nextSweep, users, messages, nextId, delivered>>

\* Message.countDocuments(query)
ReceiveCount(s) ==
    /\ At(s, "receive", "find")
    /\ req[s].total < 0
    /\ LET r == req[s] IN
       ReceiveFound(s, [r EXCEPT !.total = Cardinality(Matching(messages, r.id, r.unread))])
    /\ UNCHANGED <<now, nextSweep, users, messages, nextId, delivered>>

\* User.findOneAndUpdate({ id: recipientId }, { lastActive })
ReceiveTouch(s) ==
    /\ At(s, "receive", "update")
    /\ LET r == req[s]
           hit == IF HasUser(users, r.id) THEN {r.id} ELSE {}
       IN
       /\ users' = TouchUser(users, r.id, r.ts)
       /\ Step(s, [r EXCEPT !.pc = "deleteMany", !.touched = hit])
    /\ UNCHANGED <<now, nextSweep, messages, nextId, delivered>>

\* A response whose pagination is computed from the total counted before the
\* deletion.
ReceiveResponseStale(s, r, unreadCount) ==
    [Resp(s, r, 200, "OK") EXCEPT
        !.msgs = r.sel,
        !.total = r.total,
        !.pages = TotalPages(r.total, r.limit),
        !.more = (r.page - 1) * r.limit + Len(r.sel) < r.total,
        !.limit = r.limit,
        !.unreadCount = unreadCount,
        !.n = Len(r.sel),
        !.flag = IdsOf(r.sel) \cap delivered # {}]

\* The response of a receive, the unread count known or left out.  The flag is
\* history: a message of this response was in the response of an earlier one.
ReceiveResponse(s, r, unreadCount) ==
    LET remainingMessages == r.total - Len(r.sel) IN
    [Resp(s, r, 200, "OK") EXCEPT
        !.msgs = r.sel,
        !.total = remainingMessages,
        !.pages = TotalPages(remainingMessages, r.limit),
        !.more = (r.page - 1) * r.limit + Len(r.sel) < r.total,
        !.limit = r.limit,
        !.unreadCount = unreadCount,
        !.n = Len(r.sel),
        !.flag = IdsOf(r.sel) \cap delivered # {}]

\* Message.deleteMany({ _id: { $in: messageIds } })
ReceiveDelete(s) ==
    /\ At(s, "receive", "deleteMany")
    /\ LET r == req[s]
           gone == WithIds(messages, IdsOf(r.sel))
           r2 == [r EXCEPT !.removed = {m.id : m \in gone}]
       IN
       /\ messages' = messages \ gone
       /\ IF r.unread
          THEN /\ Finish(s, ReceiveResponse(s, r2, -1))
               /\ delivered' = delivered \cup IdsOf(r.sel)
          ELSE /\ Step(s, [r2 EXCEPT !.pc = "count"])
               /\ UNCHANGED delivered
    /\ UNCHANGED <<now, nextSweep, users, nextId>>

\* Message.countDocuments({ recipientId, isRead: false })
ReceiveUnread(s) ==
    /\ At(s, "receive", "count")
    /\ LET r == req[s] IN
       /\ Finish(s, ReceiveResponse(s, r, Cardinality(Matching(messages, r.id, TRUE))))
       /\ delivered' = delivered \cup IdsOf(r.sel)
    /\ UNCHANGED <<now, nextSweep, users, messages, nextId>>

(* -------------------- PUT /messages/:userId/read ---------------------- *)

MarkRead(s, ids, idSets) ==
    /\ req[s].pc = "idle"
    /\ \E id \in ids, messageIds \in idSets :
          LET r == [Idle EXCEPT !.op = "read", !.pc = "findOne", !.id = id,
                                !.ids = messageIds] IN
          IF ~validateUserId(id) THEN Reject(s, r, 400, "INVALID_ID_FORMAT")
          ELSE Begin(s, r)
    /\ UNCHANGED <<now, nextSweep, users, messages, nextId, delivered>>

\* User.findOne({ id: userId })
MarkReadFindUser(s) ==
    /\ At(s, "read", "findOne")
    /\ IF ~HasUser(users, req[s].id)
       THEN Finish(s, Resp(s, req[s], 404, "USER_NOT_FOUND"))
       ELSE Step(s, [req[s] EXCEPT !.pc = "updateMany", !.ts = now])
    /\ UNCHANGED <<now, nextSweep, users, messages, nextId, delivered>>

\* An update query that drops the recipient when ids are given.
UpdateQueryByIds(ms, userId, messageIds) ==
    IF messageIds # {} THEN {m \in ms : m.id \in messageIds}
    ELSE {m \in ms : m.recipientId = userId}

\* updateQuery: { recipientId: userId }, and _id: { $in: messageIds } when a
\* non-empty array of ids was given.
UpdateQuery(ms, userId, messageIds) ==
    {m \in ms : m.recipientId = userId /\ (messageIds # {} => m.id \in messageIds)}

\* updateMany(query, { isRead: true }) on a schema with timestamps: true: the
\* update sent to the store is $set { isRead: true, updatedAt: ts }.
SetReadDoc(m, ts) == [m EXCEPT !.isRead = TRUE, !.updatedAt = ts]

\* result.modifiedCount: the matched documents the update changed.
ModifiedCount(hit, ts) == Cardinality({m \in hit : SetReadDoc(m, ts) # m})

SetRead(ms, hit, ts) == {IF m \in hit THEN SetReadDoc(m, ts) ELSE m : m \in ms}

\* Message.updateMany(updateQuery, { isRead: true })
MarkReadUpdate(s) ==
    /\ At(s, "read", "updateMany")
    /\ LET r == req[s]
           hit == UpdateQuery(messages, r.id, r.ids)
       IN
       /\ messages' = SetRead(messages, hit, r.ts)
       /\ Finish(s, [Resp(s, r, 200, "OK") EXCEPT !.n = ModifiedCount(hit, r.ts),
                                                  !.date = r.ts])
    /\ UNCHANGED <<now, nextSweep, users, nextId, delivered>>

(* ----------------------- DELETE /users/:userId ------------------------ *)

Delete(s, ids, reasons) ==
    /\ req[s].pc = "idle"
    /\ \E id \in ids, immediate \in BOOLEAN, reason \in reasons :
          LET r == [Idle EXCEPT !.op = "delete", !.pc = "findOne", !.id = id,
                                !.immediate = immediate, !.reason = reason] IN
          IF ~validateUserId(id) THEN Reject(s, r, 400, "INVALID_ID_FORMAT")
          ELSE Begin(s, r)
    /\ UNCHANGED <<now, nextSweep, users, messages, nextId, delivered>>

\* A delete whose body is a FormData (req.body.get exists), as sendBeacon
\* posts it: immediate is get("immediate") === "true" and reason is
\* get("reason") || "beacon"; given is what get("reason") returns.
DeleteBeacon(s, ids, reasons) ==
    /\ req[s].pc = "idle"
    /\ \E id \in ids, immediate \in BOOLEAN, given \in reasons :
          LET r == [Idle EXCEPT !.op = "delete", !.pc = "findOne", !.id = id,
                                !.immediate = immediate, !.form = TRUE, !.given = given,
                                !.reason = IF given = NoReason THEN "beacon" ELSE given] IN
          IF ~validateUserId(id) THEN Reject(s, r, 400, "INVALID_ID_FORMAT")
          ELSE Begin(s, r)
    /\ UNCHANGED <<now, nextSweep, users, messages, nextId, delivered>>

\* User.findOne({ id: userId })
DeleteFindUser(s) ==
    /\ At(s, "delete", "findOne")
    /\ LET r == req[s] IN
       IF ~HasUser(users, r.id)
       THEN Finish(s, Resp(s, r, 200, "ALREADY_DELETED"))
       ELSE IF r.immediate THEN Step(s, [r EXCEPT !.pc = "deleteMany"])
       ELSE Step(s, [r EXCEPT !.pc = "update", !.ts = now])
    /\ UNCHANGED <<now, nextSweep, users, messages, nextId, delivered>>

\* Message.deleteMany({ $or: [{ senderId }, { recipientId }] })
DeleteMessages(s) ==
    /\ At(s, "delete", "deleteMany")
    /\ LET r == req[s]
           gone == OfUser(messages, r.id)
       IN
       /\ messages' = messages \ gone
       /\ Step(s, [r EXCEPT !.pc = "deleteOne", !.n = Cardinality(gone),
                            !.removed = {m.id : m \in gone}])
    /\ UNCHANGED <<now, nextSweep, users, nextId, delivered>>

\* User.deleteOne({ id: userId })
DeleteUser(s) ==
    /\ At(s, "delete", "deleteOne")
    /\ LET r == req[s]
           hit == IF HasUser(users, r.id) THEN {r.id} ELSE {}
       IN
       /\ users' = DeleteOneUser(users, r.id)
       /\ Finish(s, [Resp(s, [r EXCEPT !.purged = hit], 200, "DELETED") EXCEPT
                        !.n = r.n, !.flag = TRUE])
    /\ UNCHANGED <<now, nextSweep, messages, nextId, delivered>>

\* User.findOneAndUpdate({ id }, { markedForDeletion, markedAt, deleteReason })
DeleteMark(s) ==
    /\ At(s, "delete", "update")
    /\ LET r == req[s]
           hit == IF HasUser(users, r.id) THEN {r.id} ELSE {}
       IN
       /\ users' = MarkUser(users, r.id, r.ts, r.reason)
       /\ Finish(s, Resp(s, [r EXCEPT !.touched = hit], 200, "MARKED"))
    /\ UNCHANGED <<now, nextSweep, messages, nextId, delivered>>

(* --------------------------- store failures --------------------------- *)

\* The catch block of each handler.
CatchCode(op) ==
    CASE op = "generate" -> "GENERATION_ERROR"
      [] op = "custom" -> "GENERATION_ERROR"
      [] op = "create" -> "CREATE_ERROR"
      [] op = "check" -> "CHECK_ERROR"
      [] op = "exists" -> "CHECK_ERROR"
      [] op = "heartbeat" -> "HEARTBEAT_ERROR"
      [] op = "send" -> "SEND_ERROR"
      [] op = "receive" -> "PROCESS_ERROR"
      [] op = "read" -> "UPDATE_ERROR"
      [] op = "delete" -> "DELETE_ERROR"

\* The catch block of delete answers a beacon with success: a body with a get
\* method whose get("reason") is "beacon".
CaughtAsSuccess(r) == r.op = "delete" /\ r.form /\ r.given = "beacon"

\* The store call a handler is waiting for fails and its promise rejects.
StoreError(s) ==
    /\ req[s].pc # "idle"
    /\ IF CaughtAsSuccess(req[s])
       THEN Finish(s, Resp(s, req[s], 200, "CLEANUP_WITH_ERRORS"))
       ELSE Finish(s, Resp(s, req[s], 500, CatchCode(req[s].op)))
    /\ UNCHANGED <<now, nextSweep, users, messages, nextId, delivered>>

(* ------------------------ cleanupInactiveUsers ------------------------ *)

\* What the cleanup job has just done, in the shape of a response.
SweepEvent(code, c) ==
    Resp(0, [Idle EXCEPT !.op = "sweep", !.id = c, !.solo = sweep.solo], 0, code)

\* setInterval(cleanupInactiveUsers, 5 * 60 * 1000): a pass begins.
SweepStart ==
    /\ sweep.pc = "idle"
    /\ now >= nextSweep
    /\ nextSweep' = nextSweep + SweepMinutes
    /\ sweep' = [IdleSweep EXCEPT !.pc = "findSoft", !.cutoff = now - GraceMinutes,
                                  !.solo = \A t \in Slots : req[t].pc = "idle"]
    /\ req' = [t \in Slots |-> [req[t] EXCEPT !.solo = FALSE, !.pre = {}, !.was = NoUsers]]
    /\ resp' = NoResp
    /\ UNCHANGED <<now, users, messages, nextId, delivered>>

\* The purge loop is over: the job goes on to the inactive users.
SweepNext(list) ==
    IF list # {}
    THEN [sweep EXCEPT !.pc = "deleteMany", !.list = list, !.cur = NoId]
    ELSE [sweep EXCEPT !.pc = "findInactive", !.list = {}, !.cur = NoId,
                       !.cutoff = now - InactiveMinutes]

\* User.find({ markedForDeletion: true, markedAt: { $lt: twoMinutesAgo } })
SweepFindSoft ==
    /\ sweep.pc = "findSoft"
    /\ sweep' = SweepNext(SoftDeleted(users, sweep.cutoff))
    /\ resp' = NoResp
    /\ UNCHANGED <<now, nextSweep, users, messages, nextId, req, delivered>>

\* Message.deleteMany({ $or: [{ senderId: user.id }, { recipientId: user.id }] })
SweepDeleteMessages ==
    /\ sweep.pc = "deleteMany"
    /\ \E c \in sweep.list :
          /\ messages' = messages \ OfUser(messages, c)
          /\ sweep' = [sweep EXCEPT !.pc = "deleteOne", !.cur = c]
    /\ resp' = NoResp
    /\ UNCHANGED <<now, nextSweep, users, nextId, req, delivered>>

\* User.deleteOne({ id: user.id })
SweepDeleteUser ==
    /\ sweep.pc = "deleteOne"
    /\ users' = DeleteOneUser(users, sweep.cur)
    /\ sweep' = SweepNext(sweep.list \ {sweep.cur})
    /\ resp' = SweepEvent("PURGED", sweep.cur)
    /\ UNCHANGED <<now, nextSweep, messages, nextId, req, delivered>>

\* User.find({ lastActive: { $lt: fifteenMinutesAgo }, markedForDeletion: { $ne: true } })
SweepFindInactive ==
    /\ sweep.pc = "findInactive"
    /\ LET inactiveUsers == Inactive(users, sweep.cutoff) IN
       IF inactiveUsers # {}
       THEN sweep' = [sweep EXCEPT !.pc = "updateMany", !.list = inactiveUsers, !.ts = now]
       ELSE sweep' = IdleSweep
    /\ resp' = NoResp
    /\ UNCHANGED <<now, nextSweep, users, messages, nextId, req, delivered>>

\* A job whose purge phase comes after its marking phase.
SweepEndPurges == [IdleSweep EXCEPT !.pc = "findSoft", !.cutoff = now - GraceMinutes]

\* After the marking phase the job logs its summary and returns.
SweepEnd == IdleSweep

\* User.updateMany({ id: { $in: ids } }, { markedForDeletion, markedAt, deleteReason })
SweepMark ==
    /\ sweep.pc = "updateMany"
    /\ users' = MarkMany(users, sweep.list, sweep.ts)
    /\ sweep' = SweepEnd
    /\ resp' = SweepEvent("MARKED", NoId)
    /\ UNCHANGED <<now, nextSweep, messages, nextId, req, delivered>>

\* A store call of the job fails: the catch block logs it and the pass ends.
SweepError ==
    /\ sweep.pc \notin {"idle"}
    /\ sweep' = IdleSweep
    /\ resp' = SweepEvent("ERROR", sweep.cur)
    /\ UNCHANGED <<now, nextSweep, users, messages, nextId, req, delivered>>

(* --------------------------- specification ---------------------------- *)

Init ==
    /\ now = StartTime
    /\ nextSweep = StartTime + SweepMinutes
    /\ users \in [Codes -> {<< >>, <<NewUser(0)>>}]
    /\ messages = {}
    /\ nextId = 1
    /\ req = [s \in Slots |-> Idle]
    /\ sweep = IdleSweep
    /\ resp = NoResp
    /\ delivered = {}

\* What the handlers of one slot do after their first store call.
AllocatorSteps(s) ==
    \/ GenerateFind(s) \/ GenerateSave(s) \/ CheckIdFind(s) \/ CustomIdFind(s)
    \/ CustomIdSave(s)

SendSteps(s) == SendFindSender(s) \/ SendFindRecipient(s) \/ SendSave(s) \/ SendTouch(s)

ReceiveSteps(s) ==
    \/ ReceiveFindUser(s) \/ ReceiveFind(s) \/ ReceiveCount(s) \/ ReceiveTouch(s)
    \/ ReceiveDelete(s) \/ ReceiveUnread(s)

MarkReadSteps(s) == MarkReadFindUser(s) \/ MarkReadUpdate(s)

DeleteSteps(s) == DeleteFindUser(s) \/ DeleteMessages(s) \/ DeleteUser(s) \/ DeleteMark(s)

SweepPass ==
    \/ SweepFindSoft \/ SweepDeleteMessages \/ SweepDeleteUser \/ SweepFindInactive
    \/ SweepMark \/ SweepError

Sweep == SweepStart \/ SweepPass

\* No handler is between two store calls; the cleanup job is between two passes.
NoRequest == \A s \in Slots : req[s].pc = "idle"
NoSweep == sweep.pc = "idle"

\* Concurrent allocation: two handlers generate, reserve and check codes.
NextAlloc ==
    \E s \in Slots :
        \/ GenerateId(s) \/ CheckId(s, RequestIds) \/ CustomId(s, RequestIds)
        \/ AllocatorSteps(s) \/ StoreError(s)

SpecAlloc == Init /\ [][NextAlloc]_vars

\* Races at insert: two handlers allocate and reserve codes, by either route,
\* against a store that does not fail.
NextRace ==
    \E s \in Slots :
        \/ GenerateId(s) \/ GenerateFind(s) \/ GenerateSave(s)
        \/ CustomId(s, RequestIds) \/ CustomIdFind(s) \/ CustomIdSave(s)
        \/ CreateUser(s, RequestIds) \/ CreateUserFind(s) \/ CreateUserSave(s)

SpecRace == Init /\ [][NextRace]_vars

\* One allocation at a time, racing with reservations, against a store that
\* answers every call: a handler waiting for a store call is resumed.
NextGenerate ==
    \/ GenerateId(1) \/ GenerateFind(1) \/ GenerateSave(1) \/ StoreError(1)
    \/ CustomId(2, Codes) \/ CustomIdFind(2) \/ CustomIdSave(2)

SpecGenerate ==
    /\ Init
    /\ [][NextGenerate]_vars
    /\ WF_vars(GenerateFind(1) \/ GenerateSave(1) \/ StoreError(1))

\* Reservations, one request at a time: codes well-formed and not, free, held
\* and held by an identity marked for deletion.
NextReserve ==
    \E s \in {1} :
        \/ CustomId(s, Codes \cup BadIds) \/ CustomIdFind(s) \/ CustomIdSave(s)
        \/ Delete(s, Codes, {"manual"}) \/ DeleteSteps(s)

SpecReserve == Init /\ [][NextReserve]_vars

\* Requests that must be refused: sends with every combination of ids and
\* contents, and the operations of identity A while it is stored and after a
\* second handler has deleted it.
NextGuard ==
    \/ \E s \in {1} :
        \/ Send(s, RequestIds, RequestIds, Contents \cup {NoContent}, MaxLifeMsgs)
        \/ SendSteps(s)
        \/ Receive(s, {IdA}, {1}, {1}) \/ ReceiveSteps(s)
        \/ MarkRead(s, {IdA}, {{}}) \/ MarkReadSteps(s)
        \/ Heartbeat(s, {IdA}) \/ HeartbeatUpdate(s)
    \/ Delete(2, {IdA}, {"manual"}) \/ DeleteSteps(2)

SpecGuard == Init /\ [][NextGuard]_vars

\* Pages of every size: one handler at a time fills the inbox of A and reads
\* it with pages and limits in and out of the sane range.
PageLimits == ((0 - MaxLimit)..MaxLimit) \cup {BigLimit}

NextPage ==
    \E s \in {1} :
        \/ Send(s, {IdB}, {IdA}, {Hi}, MaxMsgs) \/ SendSteps(s)
        \/ Receive(s, {IdA}, 0..MaxPage, PageLimits) \/ ReceiveSteps(s)

SpecPage == Init /\ [][NextPage]_vars

\* The relay: one handler at a time sends, receives and marks messages read.
NextRelay ==
    \E s \in {1} :
        \/ Send(s, RequestIds, RequestIds, Contents, MaxMsgs) \/ SendSteps(s)
        \/ Receive(s, {IdA}, 1..MaxPage, 1..MaxLimit) \/ ReceiveSteps(s)
        \/ MarkRead(s, {IdA}, SUBSET (1..MaxMsgs)) \/ MarkReadSteps(s)
        \/ StoreError(s)

SpecRelay == Init /\ [][NextRelay]_vars

\* Marking read over time: one handler at a time sends between the two codes
\* and marks the inbox of A read, the clock moving between the requests.
NextRead ==
    \/ (NoRequest /\ Tick)
    \/ \E s \in {1} :
        \/ Send(s, Codes, Codes, {Hi}, MaxMsgs) \/ SendSteps(s)
        \/ MarkRead(s, {IdA}, SUBSET (1..MaxMsgs)) \/ MarkReadSteps(s)
        \/ StoreError(s)

SpecRead == Init /\ [][NextRead]_vars

\* Message bodies: one handler sends every body of ContentCases from B to A.
NextContent ==
    \E s \in {1} : Send(s, {IdB}, {IdA}, ContentCases, MaxLifeMsgs) \/ SendSteps(s)

SpecContent == Init /\ [][NextContent]_vars

\* Deletions against a store that may fail: one handler at a time sends and
\* deletes, softly and at once, with a JSON body and with a FormData.
NextDelete ==
    \E s \in {1} :
        \/ Send(s, Codes, Codes, {Hi}, MaxLifeMsgs) \/ SendSteps(s)
        \/ Delete(s, Codes, Reasons \cup {OtherReason}) \/ DeleteSteps(s)
        \/ DeleteBeacon(s, Codes, {"beacon", NoReason})
        \/ StoreError(s)

SpecDelete == Init /\ [][NextDelete]_vars

\* The cleanup job among requests: while the job is between two store calls
\* a handler sends heartbeats and deletes identities, softly and at once, and
\* the clock moves.
NextJob ==
    \/ Tick \/ Sweep
    \/ \E s \in {1} :
        \/ Heartbeat(s, Codes) \/ HeartbeatUpdate(s)
        \/ Delete(s, Codes, {"manual"}) \/ DeleteSteps(s)

SpecJob == Init /\ [][NextJob]_vars

\* The same, the handler also reserving the codes of deleted identities again.
NextOverlap ==
    \/ Tick \/ Sweep
    \/ \E s \in {1} :
        \/ Heartbeat(s, Codes) \/ HeartbeatUpdate(s)
        \/ Delete(s, Codes, {"manual"}) \/ DeleteSteps(s)
        \/ CustomId(s, Codes) \/ CustomIdFind(s) \/ CustomIdSave(s)

SpecOverlap == Init /\ [][NextOverlap]_vars

\* A code used again: one handler sends from B to A while a second one
\* deletes A, reserves its code again and receives for it, and the clock moves.
NextReuse ==
    \/ Tick
    \/ Send(1, {IdB}, {IdA}, {Hi}, MaxLifeMsgs) \/ SendSteps(1)
    \/ Delete(2, {IdA}, {"manual"}) \/ DeleteSteps(2)
    \/ CustomId(2, {IdA}) \/ CustomIdFind(2) \/ CustomIdSave(2)
    \/ Receive(2, {IdA}, {1}, {1}) \/ ReceiveSteps(2)

SpecReuse == Init /\ [][NextReuse]_vars

\* The activity of A: two handlers send heartbeats for A while one of them also
\* sends to A and the other receives for A, and the clock moves.
NextBeat ==
    \/ Tick
    \/ \E s \in Slots : Heartbeat(s, {IdA}) \/ HeartbeatUpdate(s)
    \/ Send(1, {IdB}, {IdA}, {Hi}, MaxLifeMsgs) \/ SendSteps(1)
    \/ Receive(2, {IdA}, {1}, {1}) \/ ReceiveSteps(2)

SpecBeat == Init /\ [][NextBeat]_vars

\* The inbox of A: two handlers read it while one of them also sends to it, in
\* any interleaving.
NextInbox ==
    \/ \E s \in Slots : Receive(s, {IdA}, {1}, 1..MaxLimit) \/ ReceiveSteps(s)
    \/ Send(1, {IdB}, {IdA}, {Hi}, MaxMsgs) \/ SendSteps(1)

SpecInbox == Init /\ [][NextInbox]_vars

\* A send racing with the deletion of its parties, by request and by the job.
NextSend ==
    \/ Tick \/ Sweep
    \/ Send(1, Codes, Codes, {Hi}, MaxLifeMsgs) \/ SendSteps(1) \/ StoreError(1)
    \/ Delete(2, Codes, {"beacon"}) \/ DeleteSteps(2)

SpecSend == Init /\ [][NextSend]_vars

\* Purges, one thing at a time: identity A is deleted by request and by the
\* job with messages stored, no request arriving during a pass of the job and
\* no pass beginning during a request.
NextPurge ==
    \/ Tick
    \/ (NoRequest /\ SweepStart) \/ SweepPass
    \/ \E s \in {1} :
        \/ (NoSweep /\ Send(s, Codes, Codes, {Hi}, MaxMsgs)) \/ SendSteps(s)
        \/ (NoSweep /\ Delete(s, {IdA}, {"manual"})) \/ DeleteSteps(s)
        \/ StoreError(s)

SpecPurge == Init /\ [][NextPurge]_vars

\* The lifecycle of identity A, one thing at a time: every handler, the job
\* between the requests, and time passing between the two.
NextLife ==
    \/ (NoRequest /\ NoSweep /\ Tick)
    \/ (NoRequest /\ SweepStart) \/ SweepPass
    \/ \E s \in {1} :
        \/ (NoSweep /\ CheckId(s, {IdA})) \/ CheckIdFind(s)
        \/ (NoSweep /\ CustomId(s, {IdA})) \/ CustomIdFind(s) \/ CustomIdSave(s)
        \/ (NoSweep /\ Exists(s, {IdA})) \/ ExistsFind(s)
        \/ (NoSweep /\ Heartbeat(s, {IdA})) \/ HeartbeatUpdate(s)
        \/ (NoSweep /\ Send(s, Codes, Codes, {Hi}, MaxLifeMsgs)) \/ SendSteps(s)
        \/ (NoSweep /\ Receive(s, {IdA}, {1}, {1})) \/ ReceiveSteps(s)
        \/ (NoSweep /\ MarkRead(s, {IdA}, {{}})) \/ MarkReadSteps(s)
        \/ (NoSweep /\ Delete(s, {IdA}, {"manual"})) \/ DeleteSteps(s)

Spec == Init /\ [][NextLife]_vars

(* ------------------------------ claims -------------------------------- *)

\* C1: however concurrent generate-identity and reserve-identity requests
\* interleave, racing on the same code included, the Identity Store never holds
\* more than one identity with a given code.
C1_OneIdentityPerCode == \A c \in Codes : Len(users[c]) <= 1

\* Two requests raced on one code: the first has just inserted it while the
\* second, whose availability check had passed, is about to save it.
C1_Witness ==
    \E s \in Slots :
        /\ req[s].op \in {"generate", "custom"}
        /\ req[s].pc = "save"
        /\ resp.code = "OK"
        /\ resp.r.op \in {"generate", "custom"}
        /\ resp.r.made = {req[s].id}
        /\ Len(users[req[s].id]) = 1

\* C2: a message returned by a receive that completed is never returned by a
\* receive that started afterwards, so sequential receives return disjoint
\* sets; and a receive run alone on an inbox holding nothing for the recipient
\* returns zero messages.
C2_NoRedelivery ==
    (resp.code = "OK" /\ resp.r.op = "receive") =>
        /\ IdsOf(resp.msgs) \cap resp.r.seen = {}
        /\ (resp.r.solo /\ Matching(resp.r.pre, resp.r.id, FALSE) = {}) => resp.msgs = << >>

\* A receive returns a message after an earlier receive had returned another.
C2_Witness ==
    /\ resp.code = "OK"
    /\ resp.r.op = "receive"
    /\ resp.r.seen # {}
    /\ resp.msgs # << >>

\* A receive returns nothing once earlier receives have emptied the inbox.
C2_WitnessDrained ==
    /\ resp.code = "OK"
    /\ resp.r.op = "receive"
    /\ resp.r.solo
    /\ resp.r.seen # {}
    /\ resp.msgs = << >>

\* C3: a successful receive that ran with no other request in flight removed
\* from the Message Store exactly the messages it returns, all of them the
\* recipient's: every other message is still stored, with unreadOnly set every
\* message already read is still stored, and deletedCount is the number of
\* messages returned.
C3_RemovesWhatItReturns ==
    (resp.code = "OK" /\ resp.r.op = "receive" /\ resp.r.solo) =>
        /\ resp.r.removed = IdsOf(resp.msgs)
        /\ messages = {m \in resp.r.pre : m.id \notin IdsOf(resp.msgs)}
        /\ \A k \in 1..Len(resp.msgs) :
              resp.msgs[k] \in resp.r.pre /\ resp.msgs[k].recipientId = resp.r.id
        /\ resp.r.unread =>
              \A m \in resp.r.pre : m.isRead => m \in messages /\ m.id \notin IdsOf(resp.msgs)
        /\ resp.n = Len(resp.msgs)
        /\ resp.n = Cardinality(resp.r.pre) - Cardinality(messages)

\* An unreadOnly receive returned a message and left a read message of the same
\* recipient stored.
C3_Witness ==
    /\ resp.code = "OK"
    /\ resp.r.op = "receive"
    /\ resp.r.solo
    /\ resp.r.unread
    /\ resp.msgs # << >>
    /\ \E m \in messages : m.recipientId = resp.r.id /\ m.isRead

\* A receive of a page of one left the recipient's other unread message stored.
C3_WitnessPage ==
    /\ resp.code = "OK"
    /\ resp.r.op = "receive"
    /\ resp.r.solo
    /\ resp.r.limit = 1
    /\ Len(resp.msgs) = 1
    /\ \E m \in messages : m.recipientId = resp.r.id /\ ~m.isRead

\* C4: under any interleaving with delete-identity requests and the cleanup
\* job, a send that reports success has created exactly one message and
\* refreshed the last-active time of exactly one identity, the recipient's, and
\* a send that reports a failure has created no message and changed no identity.
C4_SendAllOrNothing ==
    (resp.slot # 0 /\ resp.r.op = "send") =>
        IF resp.status = 201
        THEN Cardinality(resp.r.created) = 1 /\ resp.r.touched = {resp.r.id2}
        ELSE resp.r.created = {} /\ resp.r.touched = {}

\* A send reported success although the recipient, purged after the existence
\* check, was no longer there to have its last-active time refreshed.
C4_SuccessWithoutRefresh ==
    /\ resp.slot # 0
    /\ resp.r.op = "send"
    /\ resp.status = 201
    /\ resp.r.touched = {}
    /\ ~HasUser(users, resp.r.id2)

\* A send reported a failure after its message had been stored.
C4_FailureWithMessage ==
    /\ resp.slot # 0
    /\ resp.r.op = "send"
    /\ resp.status = 500
    /\ resp.r.created # {}
    /\ \E m \in messages : m.id \in resp.r.created

\* C5: when a purge of identity X completes with no other request in flight,
\* by an immediate delete-identity or by the cleanup job purging X past its
\* grace window, the Identity Store holds no identity X and the Message Store
\* holds no message whose senderId or recipientId is X.
C5_PurgeIsComplete ==
    (/\ resp.r.solo
     /\ \/ resp.r.op = "delete" /\ resp.code = "DELETED"
        \/ resp.r.op = "sweep" /\ resp.code = "PURGED") =>
        /\ users[resp.r.id] = << >>
        /\ \A m \in messages : m.senderId # resp.r.id /\ m.recipientId # resp.r.id

\* The cleanup job has purged an identity, undisturbed, after messages had been
\* sent.
C5_Witness ==
    /\ resp.r.solo
    /\ resp.r.op = "sweep"
    /\ resp.code = "PURGED"
    /\ nextId > 1

\* An immediate delete-identity has purged an identity and its messages.
C5_WitnessImmediate ==
    /\ resp.r.solo
    /\ resp.r.op = "delete"
    /\ resp.code = "DELETED"
    /\ resp.r.removed # {}

Marked(us, c) == c \in Codes /\ us[c] # << >> /\ us[c][1].markedForDeletion

\* C6: an identity's state only moves forward, active to marked to purged: once
\* markedForDeletion is true it stays true until the identity is removed from
\* the store, and no step of a heartbeat, send, receive, markRead, delete or of
\* the cleanup job makes it false again.
C6_MarkedStaysMarked ==
    [][\A c \in Codes : Marked(users, c) => (users'[c] = << >> \/ Marked(users', c))]_vars

\* A heartbeat has refreshed an identity that is marked for deletion.
C6_Witness ==
    /\ resp.r.op = "heartbeat"
    /\ resp.status = 200
    /\ Marked(users, resp.r.id)
    /\ users[resp.r.id][1].lastActive > users[resp.r.id][1].markedAt

\* A receive has refreshed an identity that is marked for deletion.
C6_WitnessReceive ==
    /\ resp.r.op = "receive"
    /\ resp.status = 200
    /\ resp.r.touched = {resp.r.id}
    /\ Marked(users, resp.r.id)

\* A send has refreshed a recipient that is marked for deletion.
C6_WitnessSend ==
    /\ resp.r.op = "send"
    /\ resp.status = 201
    /\ resp.r.touched = {resp.r.id2}
    /\ Marked(users, resp.r.id2)

\* A markRead has updated a message of an identity marked for deletion.
C6_WitnessMarkRead ==
    /\ resp.r.op = "read"
    /\ resp.status = 200
    /\ resp.n > 0
    /\ Marked(users, resp.r.id)

\* The cleanup job has marked the inactive identities while another identity
\* was already marked.
C6_WitnessSweep ==
    /\ resp.r.op = "sweep"
    /\ resp.code = "MARKED"
    /\ \E c \in Codes : Marked(users, c) /\ users[c][1].deleteReason = "manual"

\* C7: an identity that became marked for deletion is purged by the cleanup
\* job once its grace window has elapsed, whatever requests reached it in the
\* meantime: a pass whose query for the identities to purge runs when an
\* identity has been marked for longer than the grace window selects it.
C7_MarkedIsPurgedAfterGrace ==
    [][(sweep.pc = "findSoft" /\ sweep'.pc \in {"deleteMany", "findInactive"}) =>
          \A c \in Codes :
              (Marked(users, c) /\ users[c][1].since < sweep.cutoff) =>
                  (sweep'.pc = "deleteMany" /\ c \in sweep'.list)]_vars

\* A pass of the cleanup job has left alone an identity marked for longer than
\* the grace window, its markedAt having been set anew by a second request.
C7_Overlooked ==
    /\ sweep.pc \in {"deleteMany", "deleteOne", "findInactive"}
    /\ \E c \in Codes :
          /\ Marked(users, c)
          /\ users[c][1].since < now - GraceMinutes
          /\ users[c][1].markedAt > users[c][1].since
          /\ c \notin sweep.list

\* C8: a delete-identity whose lookup finds no identity with the code (never
\* allocated, or purged before), run with no other request in flight, reports
\* success with deletedMessages = 0 and wasDeleted = false and leaves both
\* stores as they were, whatever its immediate flag.
C8_DeleteOfMissingIsNoOp ==
    (/\ resp.slot # 0
     /\ resp.r.op = "delete"
     /\ resp.r.solo
     /\ resp.r.id \in Codes
     /\ resp.r.was[resp.r.id] = << >>
     /\ resp.status \notin {400, 500}) =>
        /\ resp.status = 200
        /\ resp.code = "ALREADY_DELETED"
        /\ resp.n = 0
        /\ resp.flag = FALSE
        /\ users = resp.r.was
        /\ messages = resp.r.pre

\* An immediate delete-identity answers for an identity purged earlier, one
\* that had exchanged messages.
C8_Witness ==
    /\ resp.slot # 0
    /\ resp.r.op = "delete"
    /\ resp.r.solo
    /\ resp.r.immediate
    /\ resp.code = "ALREADY_DELETED"
    /\ resp.r.id = IdA
    /\ nextId > 1

\* C9: an immediate delete-identity on an existing identity, active or already
\* marked for deletion, run with no other request in flight, purges it within
\* the request: the identity and every message it sent or received are gone,
\* nothing else is, wasDeleted = true and deletedMessages is the number of
\* messages that were stored with the identity as sender or as recipient.
C9_ImmediateDeletePurges ==
    (/\ resp.slot # 0
     /\ resp.r.op = "delete"
     /\ resp.r.solo
     /\ resp.r.immediate
     /\ resp.r.id \in Codes
     /\ resp.r.was[resp.r.id] # << >>
     /\ resp.status \notin {400, 500}) =>
        LET mine == {m \in resp.r.pre : m.senderId = resp.r.id \/ m.recipientId = resp.r.id} IN
        /\ resp.status = 200
        /\ resp.code = "DELETED"
        /\ resp.flag = TRUE
        /\ resp.n = Cardinality(mine)
        /\ messages = resp.r.pre \ mine
        /\ users = [resp.r.was EXCEPT ![resp.r.id] = << >>]

\* An identity already marked for deletion is purged at once with the message
\* it sent and the message it received: deletedMessages = 2.
C9_Witness ==
    /\ resp.slot # 0
    /\ resp.r.op = "delete"
    /\ resp.r.solo
    /\ resp.r.immediate
    /\ resp.code = "DELETED"
    /\ resp.r.was[resp.r.id] # << >>
    /\ resp.r.was[resp.r.id][1].markedForDeletion
    /\ resp.n = 2
    /\ \E m \in resp.r.pre : m.senderId = resp.r.id
    /\ \E m \in resp.r.pre : m.recipientId = resp.r.id

\* The request behind the response ran with no other request in flight, on an
\* identity that was stored and marked for deletion when it arrived.
OnMarked(c) == resp.slot # 0 /\ resp.r.solo /\ Marked(resp.r.was, c)

\* C10: a non-immediate delete-identity on an existing identity, run with no
\* other request in flight, is a soft delete: it removes no message and no
\* identity, marks the identity and reports deletedMessages = 0 and
\* wasDeleted = false.  A marked identity still counts as existing until it is
\* purged: identity-exists answers true, the availability check answers false,
\* a reservation of its code is refused as taken, and a send to or from it and
\* a receive by it succeed.
C10_SoftDeleteKeepsIdentity ==
    /\ (/\ resp.slot # 0
        /\ resp.r.op = "delete"
        /\ resp.r.solo
        /\ ~resp.r.immediate
        /\ resp.r.id \in Codes
        /\ resp.r.was[resp.r.id] # << >>
        /\ resp.status \notin {400, 500}) =>
           /\ resp.status = 200
           /\ resp.code = "MARKED"
           /\ resp.n = 0
           /\ resp.flag = FALSE
           /\ messages = resp.r.pre
           /\ Marked(users, resp.r.id)
           /\ \A c \in Codes \ {resp.r.id} : users[c] = resp.r.was[c]
           /\ users[resp.r.id][1].createdAt = resp.r.was[resp.r.id][1].createdAt
           /\ users[resp.r.id][1].lastActive = resp.r.was[resp.r.id][1].lastActive
    /\ (OnMarked(resp.r.id) /\ resp.status # 500) =>
           /\ resp.r.op = "exists" => resp.flag = TRUE
           /\ resp.r.op = "check" => resp.flag = FALSE
           /\ resp.r.op = "custom" => resp.status = 409 /\ resp.code = "ID_TAKEN"
           /\ resp.r.op = "receive" => resp.status = 200
           /\ resp.r.op = "heartbeat" => resp.status = 200
           /\ (/\ resp.r.op = "send"
               /\ resp.r.id2 \in Codes \ {resp.r.id}
               /\ validateMessage(resp.r.content).valid
               /\ resp.r.was[resp.r.id2] # << >>) => resp.status = 201
    /\ (/\ OnMarked(resp.r.id2)
        /\ resp.status # 500
        /\ resp.r.op = "send"
        /\ resp.r.id \in Codes \ {resp.r.id2}
        /\ validateMessage(resp.r.content).valid
        /\ resp.r.was[resp.r.id] # << >>) => resp.status = 201

\* A message has been sent to an identity marked for deletion.
C10_Witness ==
    /\ OnMarked(resp.r.id2)
    /\ resp.r.op = "send"
    /\ resp.status = 201
    /\ \E m \in messages : m.id = resp.mid /\ m.recipientId = resp.r.id2

\* A soft delete has marked an identity whose message is still stored.
C10_WitnessMark ==
    /\ resp.slot # 0
    /\ resp.r.op = "delete"
    /\ resp.r.solo
    /\ resp.code = "MARKED"
    /\ \E m \in messages : m.recipientId = resp.r.id

\* An identity marked for deletion has received its message.
C10_WitnessReceive ==
    /\ OnMarked(resp.r.id)
    /\ resp.r.op = "receive"
    /\ resp.msgs # << >>

\* A reservation of the code of a marked identity has been refused.
C10_WitnessReserve == OnMarked(resp.r.id) /\ resp.r.op = "custom" /\ resp.code = "ID_TAKEN"

\* identity-exists has answered for a marked identity.
C10_WitnessExists == OnMarked(resp.r.id) /\ resp.r.op = "exists" /\ resp.flag

\* The availability check has answered for a marked identity.
C10_WitnessCheck == OnMarked(resp.r.id) /\ resp.r.op = "check" /\ ~resp.flag

\* An identity marked for deletion has sent a message.
C10_WitnessSender == OnMarked(resp.r.id) /\ resp.r.op = "send" /\ resp.status = 201

\* C11: for every valid code c, from the moment a reservation of c succeeds
\* until the identity c is purged, every availability check of c answers false
\* and every further reservation of c fails: a successful reservation leaves c
\* stored, a stored c goes away only by a purge (an immediate delete-identity
\* or the cleanup job), and while c is stored no step answers available = true
\* for c or reserves c again.
C11_ReservedStaysTaken ==
    [][\A c \in Codes :
          /\ (resp'.r.op = "custom" /\ resp'.r.id = c /\ resp'.status = 200) =>
                 users'[c] # << >>
          /\ users[c] # << >> =>
                 /\ (resp'.r.op = "check" /\ resp'.r.id = c) => ~resp'.flag
                 /\ (resp'.r.op = "custom" /\ resp'.r.id = c) => resp'.status # 200
                 /\ \/ users'[c] # << >>
                    \/ /\ resp'.r.id = c
                       /\ \/ resp'.r.op = "delete" /\ resp'.code = "DELETED"
                          \/ resp'.r.op = "sweep" /\ resp'.code = "PURGED"]_vars

\* The availability check has answered false for a code reserved since the
\* server started.
C11_Witness ==
    /\ resp.r.op = "check"
    /\ resp.status = 200
    /\ ~resp.flag
    /\ HasUser(users, resp.r.id)
    /\ users[resp.r.id][1].createdAt >= StartTime

\* A second reservation of a code reserved since the server started is refused.
C11_WitnessReserve ==
    /\ resp.r.op = "custom"
    /\ resp.code = "ID_TAKEN"
    /\ HasUser(users, resp.r.id)
    /\ users[resp.r.id][1].createdAt >= StartTime

\* C12: generate-identity never returns, as a newly allocated identity, a code
\* that an identity already held when the call was made, other allocations and
\* reservations running concurrently included: the step that answers with a
\* code is the step that stored the one identity of that code, and it stored
\* nothing else.
C12_AllocatesFreshCode ==
    [][(resp'.r.op = "generate" /\ resp'.status = 200) =>
          /\ resp'.r.id \in Codes \ resp'.r.held
          /\ users[resp'.r.id] = << >>
          /\ Len(users'[resp'.r.id]) = 1
          /\ resp'.r.made = {resp'.r.id}
          /\ \A c \in Codes \ {resp'.r.id} : users'[c] = users[c]]_vars

\* An allocation called while another code was held has returned a code that
\* a concurrent request, past its own lookup, is about to save as well.
C12_Witness ==
    /\ resp.r.op = "generate"
    /\ resp.status = 200
    /\ resp.r.held # {}
    /\ \E s \in Slots : req[s].pc = "save" /\ req[s].id = resp.r.id

\* C13: when two concurrent requests both pass the existence check for one
\* code and one of them loses at insert on the uniqueness constraint, the
\* loser is reported as already taken (a reservation) or as a failed
\* allocation (generate-identity), not as a generic error, and no second
\* identity is created.
C13_LoserIsReportedTaken ==
    [][\A s \in Slots :
          (req[s].pc = "save" /\ DuplicateKey(users, req[s].id) /\ req'[s].pc = "idle") =>
              /\ resp'.slot = s
              /\ req[s].op \in {"custom", "create"} =>
                     resp'.status = 409 /\ resp'.code = "ID_TAKEN"
              /\ req[s].op = "generate" => resp'.status # 200
              /\ users' = users]_vars

\* A reservation by custom-id that lost the race at insert has been answered
\* with the handler's catch-all error.
C13_LostReservation ==
    /\ resp.r.op = "custom"
    /\ resp.status = 500
    /\ resp.code = "GENERATION_ERROR"
    /\ ~resp.r.solo
    /\ Len(users[resp.r.id]) = 1

\* C14: generate-identity makes at most 10 candidate checks and always
\* terminates: it creates an identity for the first candidate code that no
\* identity holds, and when all 10 candidates collide it fails as temporarily
\* unavailable without creating any identity.  Pass i of the loop makes
\* lookup number i + 1.
C14_AllocationIsBounded ==
    /\ [](/\ \A s \in Slots : req[s].op = "generate" => req[s].i + 1 <= maxAttempts
          /\ (resp.r.op = "generate" /\ resp.status = 503) =>
                 /\ resp.code = "SERVICE_UNAVAILABLE"
                 /\ resp.r.made = {}
                 /\ resp.r.tried # {}
                 /\ \A c \in resp.r.tried : users[c] # << >>
                 /\ resp.r.solo => users = resp.r.was
          /\ (resp.r.op = "generate" /\ resp.status = 200) =>
                 /\ resp.r.made = {resp.r.id}
                 /\ resp.r.id \notin resp.r.tried
                 /\ resp.r.solo =>
                        /\ resp.r.was[resp.r.id] = << >>
                        /\ \A c \in resp.r.tried : resp.r.was[c] # << >>
                        /\ users = InsertUser(resp.r.was, resp.r.id, now))
    /\ [][\A s \in Slots :
             /\ (resp'.slot = s /\ resp'.r.op = "generate" /\ resp'.status = 503) =>
                    /\ req[s].pc = "findOne"
                    /\ req[s].i + 1 = maxAttempts
                    /\ users' = users
             /\ (req[s].op = "generate" /\ req[s].pc = "findOne" /\ req'[s].pc = "save") =>
                    /\ users[req[s].id] = << >>
                    /\ req'[s].id = req[s].id
             /\ (req[s].op = "generate" /\ req[s].pc = "findOne" /\ req'[s].pc = "findOne") =>
                    \/ req'[s].i = req[s].i /\ req'[s].id = req[s].id
                    \/ users[req[s].id] # << >> /\ req'[s].i = req[s].i + 1]_vars
    /\ (req[1].op = "generate") ~> (req[1].pc = "idle")

\* An allocation has given up, every candidate having collided.
C14_Witness ==
    /\ resp.r.op = "generate"
    /\ resp.status = 503
    /\ resp.r.tried = Codes

\* An allocation is about to create an identity for its tenth candidate, the
\* first nine having collided.
C14_WitnessLastAttempt ==
    /\ req[1].op = "generate"
    /\ req[1].pc = "save"
    /\ req[1].i + 1 = maxAttempts
    /\ req[1].tried # {}

\* C15: a reservation fails as an invalid format when the code is not exactly
\* six digits and as already taken when an identity, active or marked for
\* deletion, holds the code, and in both cases leaves the Identity Store as it
\* was; otherwise it creates exactly one identity with that code, active.
C15_ReserveOutcomes ==
    (resp.slot # 0 /\ resp.r.op = "custom" /\ resp.r.solo) =>
        /\ messages = resp.r.pre
        /\ IF ~isValidId(resp.r.id)
           THEN /\ resp.status = 400
                /\ resp.code \in {"INVALID_ID_FORMAT", "INVALID_FORMAT"}
                /\ users = resp.r.was
           ELSE IF resp.r.was[resp.r.id] # << >>
           THEN /\ resp.status = 409
                /\ resp.code = "ID_TAKEN"
                /\ users = resp.r.was
           ELSE /\ resp.status = 200
                /\ Len(users[resp.r.id]) = 1
                /\ ~users[resp.r.id][1].markedForDeletion
                /\ users[resp.r.id][1].createdAt = now
                /\ users[resp.r.id][1].lastActive = now
                /\ \A c \in Codes \ {resp.r.id} : users[c] = resp.r.was[c]

\* The reservation of a code held by an identity marked for deletion has been
\* refused as taken.
C15_Witness ==
    /\ resp.slot # 0
    /\ resp.r.op = "custom"
    /\ resp.r.solo
    /\ resp.code = "ID_TAKEN"
    /\ Marked(resp.r.was, resp.r.id)

\* A reservation with six characters that are not all digits has been refused.
C15_WitnessFormat ==
    /\ resp.slot # 0
    /\ resp.r.op = "custom"
    /\ resp.r.id = AlphaId
    /\ resp.status = 400

\* A free code has been reserved beside an identity marked for deletion.
C15_WitnessCreated ==
    /\ resp.slot # 0
    /\ resp.r.op = "custom"
    /\ resp.r.solo
    /\ resp.status = 200
    /\ \E c \in Codes : Marked(users, c)

\* C16: a send whose senderId equals its recipientId fails as a self-send for
\* every well-formed code, whatever the content and whether or not the
\* identity exists, and consequently no stored message has senderId equal to
\* recipientId.
C16_SelfSendIsRefused ==
    /\ (resp.slot # 0 /\ resp.r.op = "send" /\ isValidId(resp.r.id) /\ resp.r.id2 = resp.r.id) =>
           resp.status = 400 /\ resp.code = "INVALID_RECIPIENT"
    /\ \A m \in messages : m.senderId # m.recipientId

\* A send to oneself that carries no content has been refused for its missing
\* field, not as a self-send.
C16_SelfSendMissingContent ==
    /\ resp.slot # 0
    /\ resp.r.op = "send"
    /\ isValidId(resp.r.id)
    /\ resp.r.id2 = resp.r.id
    /\ resp.r.content = NoContent
    /\ resp.status = 400
    /\ resp.code = "INVALID_REQUEST"

\* What does hold of a send to oneself: it is refused, as a self-send when it
\* carries a content, whether or not the identity exists, and no stored
\* message has senderId equal to recipientId.
C16_SelfSendWithContent ==
    /\ (resp.slot # 0 /\ resp.r.op = "send" /\ isValidId(resp.r.id) /\ resp.r.id2 = resp.r.id) =>
           /\ resp.status = 400
           /\ resp.r.created = {}
           /\ resp.r.content # NoContent => resp.code = "INVALID_RECIPIENT"
    /\ \A m \in messages : m.senderId # m.recipientId

\* The request behind the response ran with no other request in flight and
\* left both stores as they were.
Untouched == users = resp.r.was /\ messages = resp.r.pre

C17_WitnessSender ==
    /\ resp.slot # 0
    /\ resp.r.solo
    /\ resp.r.op = "send"
    /\ resp.code = "SENDER_NOT_FOUND"
    /\ HasUser(users, resp.r.id2)

\* A send from a stored identity to an absent one has been refused.
C17_WitnessRecipient ==
    /\ resp.slot # 0
    /\ resp.r.solo
    /\ resp.r.op = "send"
    /\ resp.code = "RECIPIENT_NOT_FOUND"

\* A markRead for an identity that is gone has been refused while a message
\* addressed to it was stored.
C17_WitnessMarkRead ==
    /\ resp.slot # 0
    /\ resp.r.solo
    /\ resp.r.op = "read"
    /\ resp.status = 404
    /\ \E m \in resp.r.pre : m.recipientId = resp.r.id /\ ~m.isRead

\* A heartbeat for an identity that a delete-identity had purged has been
\* refused.
C17_WitnessHeartbeat ==
    /\ resp.slot # 0
    /\ resp.r.solo
    /\ resp.r.op = "heartbeat"
    /\ resp.status = 404

\* C18: with no concurrent request, the pagination.totalMessages a receive
\* reports is the number of messages matching its query (recipient, optional
\* unread filter) that remain stored after this call's deletion, and
\* totalPages is the ceiling of that number divided by limit: the least
\* number of pages of limit messages that hold them all.
C18_PaginationCountsRemaining ==
    (resp.code = "OK" /\ resp.r.op = "receive" /\ resp.r.solo /\ resp.r.limit > 0) =>
        LET remaining == Cardinality(Matching(messages, resp.r.id, resp.r.unread)) IN
        /\ resp.total = remaining
        /\ resp.pages >= 0
        /\ resp.pages * resp.r.limit >= remaining
        /\ (resp.pages - 1) * resp.r.limit < remaining

\* A receive has returned one page and reported the messages that remain, a
\* read message left out of the count by the unread filter.
C18_Witness ==
    /\ resp.code = "OK"
    /\ resp.r.op = "receive"
    /\ resp.r.solo
    /\ resp.r.unread
    /\ resp.msgs # << >>
    /\ resp.total < Cardinality(Matching(messages, resp.r.id, FALSE))

\* A receive has returned one message of two and reported one remaining, on
\* one page.
C18_WitnessRemaining ==
    /\ resp.code = "OK"
    /\ resp.r.op = "receive"
    /\ resp.r.solo
    /\ Len(resp.msgs) = 1
    /\ resp.total = 1
    /\ resp.pages = 1

\* C19: a receive clamps limit to a fixed maximum: whatever page and limit the
\* caller passes (0, negative and very large values included), the limit it
\* applies, which it reports back as pagination.limit, lies between 1 and
\* that maximum, and it returns and deletes no more messages than that limit.
C19_LimitIsClamped ==
    (resp.code = "OK" /\ resp.r.op = "receive") =>
        /\ resp.limit \in 1..PageLimitMax
        /\ Len(resp.msgs) <= resp.limit
        /\ Cardinality(resp.r.removed) <= resp.limit

\* A receive asked with limit 0 has returned and deleted every message of the
\* inbox, more than one.
C19_Unlimited ==
    /\ resp.code = "OK"
    /\ resp.r.op = "receive"
    /\ resp.r.solo
    /\ resp.r.limit = 0
    /\ Len(resp.msgs) > 1
    /\ Cardinality(resp.r.removed) = Len(resp.msgs)
    /\ Matching(messages, resp.r.id, FALSE) = {}

\* A receive asked with a very large limit has applied it as it came.
C19_WitnessBig ==
    /\ resp.code = "OK"
    /\ resp.r.op = "receive"
    /\ resp.r.limit > PageLimitMax
    /\ resp.limit = resp.r.limit
    /\ resp.msgs # << >>

\* C20: a receive called without the unread filter returns as unreadCount the
\* number of unread messages of the recipient that remain stored after this
\* call's deletions; called with the unread filter it leaves unreadCount out.
C20_UnreadCountAfterDeletion ==
    (resp.code = "OK" /\ resp.r.op = "receive") =>
        IF resp.r.unread
        THEN resp.unreadCount = -1
        ELSE resp.unreadCount =
                Cardinality({m \in messages : m.recipientId = resp.r.id /\ ~m.isRead})

\* A receive without the filter has returned a message and counted the unread
\* message it left behind.
C20_Witness ==
    /\ resp.code = "OK"
    /\ resp.r.op = "receive"
    /\ ~resp.r.unread
    /\ resp.msgs # << >>
    /\ resp.unreadCount = 1

\* A receive without the filter has returned the unread message and counted
\* none, a read message remaining.
C20_WitnessRead ==
    /\ resp.code = "OK"
    /\ resp.r.op = "receive"
    /\ ~resp.r.unread
    /\ resp.msgs # << >>
    /\ resp.unreadCount = 0
    /\ \E m \in messages : m.recipientId = resp.r.id /\ m.isRead

\* A receive with the filter has returned a message and left the count out.
C20_WitnessOmitted ==
    /\ resp.code = "OK"
    /\ resp.r.op = "receive"
    /\ resp.r.unread
    /\ resp.msgs # << >>
    /\ resp.unreadCount = -1

\* C21: markRead is idempotent.  A markRead that ran alone on messages that
\* were all read already answers 200, reports zero updated and leaves both
\* stores as they were.
C21_MarkReadIsIdempotent ==
    (/\ resp.r.op = "read"
     /\ resp.status = 200
     /\ resp.r.solo
     /\ \A m \in UpdateQuery(resp.r.pre, resp.r.id, resp.r.ids) : m.isRead) =>
        (resp.n = 0 /\ Untouched)

\* A markRead of messages that were all read already has reported an update.
C21_Witness ==
    /\ resp.r.op = "read"
    /\ resp.status = 200
    /\ resp.r.solo
    /\ \A m \in UpdateQuery(resp.r.pre, resp.r.id, resp.r.ids) : m.isRead
    /\ resp.n > 0

\* The part of the claim that holds: a markRead of messages that were all
\* read already leaves every field but updatedAt of every message, and every
\* identity, as it was.
C21_ReadStaysRead ==
    (/\ resp.r.op = "read"
     /\ resp.status = 200
     /\ resp.r.solo
     /\ \A m \in UpdateQuery(resp.r.pre, resp.r.id, resp.r.ids) : m.isRead) =>
        /\ users = resp.r.was
        /\ {[m EXCEPT !.updatedAt = 0] : m \in messages}
              = {[m EXCEPT !.updatedAt = 0] : m \in resp.r.pre}


\* C22: a successful markRead(userId, messageIds) that ran alone sets isRead
\* on the messages addressed to userId (those listed, when a non-empty list is
\* given) and on no other; it leaves a message addressed to another identity
\* as it was even when its id is listed, deletes no message, never sets isRead
\* back to false, and the count it returns is the number of messages it
\* changed.
C22_MarkReadFrame ==
    (resp.r.op = "read" /\ resp.status = 200 /\ resp.r.solo) =>
        LET r == resp.r
            mine(m) == m.recipientId = r.id /\ (r.ids # {} => m.id \in r.ids)
            after(m) == CHOOSE m2 \in messages : m2.id = m.id
        IN
        /\ {m.id : m \in messages} = {m.id : m \in r.pre}
        /\ Cardinality(messages) = Cardinality(r.pre)
        /\ \A m \in r.pre :
              /\ mine(m) => after(m) = [m EXCEPT !.isRead = TRUE, !.updatedAt = resp.date]
              /\ ~mine(m) => after(m) = m
              /\ m.isRead => after(m).isRead
        /\ resp.n = Cardinality(r.pre \ messages)
        /\ users = r.was

\* A markRead that listed a message addressed to another identity beside one
\* of its own has answered.
C22_Witness ==
    /\ resp.r.op = "read"
    /\ resp.status = 200
    /\ resp.r.solo
    /\ resp.n > 0
    /\ \E m \in resp.r.pre : m.recipientId # resp.r.id /\ m.id \in resp.r.ids /\ ~m.isRead

\* A markRead with a list that left an unlisted message of the same identity
\* unread has answered.
C22_WitnessUnlisted ==
    /\ resp.r.op = "read"
    /\ resp.status = 200
    /\ resp.n > 0
    /\ \E m \in messages : m.recipientId = resp.r.id /\ m.id \notin resp.r.ids /\ ~m.isRead


\* C23: a successful heartbeat, a successful receive and a successful send,
\* each run alone, leave the identity store as it was but for lastActive of
\* the identity concerned (the caller of heartbeat and receive, the recipient
\* of send), which is the current time; every other field of that identity
\* and every other identity, the sender of the message included, is unchanged.
C23_ActivityRefreshesOnlyLastActive ==
    /\ (resp.r.op \in {"heartbeat", "receive"} /\ resp.status = 200 /\ resp.r.solo) =>
          /\ resp.r.was[resp.r.id] # << >>
          /\ users = [resp.r.was EXCEPT ![resp.r.id][1].lastActive = now]
    /\ (resp.r.op = "send" /\ resp.status = 201 /\ resp.r.solo) =>
          /\ resp.r.was[resp.r.id2] # << >>
          /\ users = [resp.r.was EXCEPT ![resp.r.id2][1].lastActive = now]
          /\ users[resp.r.id] = resp.r.was[resp.r.id]

\* A heartbeat of an identity marked for deletion and last active earlier has
\* answered.
C23_Witness ==
    /\ resp.r.op = "heartbeat"
    /\ resp.status = 200
    /\ resp.r.solo
    /\ resp.r.was[resp.r.id][1].lastActive < now
    /\ resp.r.was[resp.r.id][1].markedForDeletion
    /\ users[resp.r.id][1].lastActive = now

\* A receive by an identity last active earlier has answered.
C23_WitnessReceive ==
    /\ resp.r.op = "receive"
    /\ resp.status = 200
    /\ resp.r.solo
    /\ resp.r.was[resp.r.id][1].lastActive < now
    /\ users[resp.r.id][1].lastActive = now

\* A send to an identity last active earlier, by a sender last active earlier
\* too, has answered.
C23_WitnessSend ==
    /\ resp.r.op = "send"
    /\ resp.status = 201
    /\ resp.r.solo
    /\ resp.r.was[resp.r.id2][1].lastActive < now
    /\ users[resp.r.id2][1].lastActive = now
    /\ users[resp.r.id][1].lastActive < now


\* What C24 asks of a content: trimmed, it has 1 to 1000 characters, no
\* character followed by ten or more repeats of itself, and no http:// or
\* https:// followed by a character that is not white space.
C24_Acceptable(content) ==
    LET t == Trim(content)
        low == [k \in 1..Len(t) |-> Lower(t[k])]
    IN
    /\ Len(t) >= 1
    /\ Len(t) <= 1000
    /\ ~\E k \in 1..Len(t) : k + 10 <= Len(t) /\ \A j \in 1..10 : t[k + j] = t[k]
    /\ ~\E k \in 1..Len(t) :
          \/ /\ k + 7 <= Len(t)
             /\ SubSeq(low, k, k + 6) = <<"h", "t", "t", "p", ":", "/", "/">>
             /\ ~IsSpace(t[k + 7])
          \/ /\ k + 8 <= Len(t)
             /\ SubSeq(low, k, k + 7) = <<"h", "t", "t", "p", "s", ":", "/", "/">>
             /\ ~IsSpace(t[k + 8])

\* C24: send (between two distinct well-formed codes) accepts a content
\* exactly when it is acceptable in the sense above; every other content is
\* answered InvalidMessage and no message is created.
C24_ContentIsValidated ==
    /\ \A s \in Slots : req[s].op = "send" => C24_Acceptable(req[s].content)
    /\ \A m \in messages : C24_Acceptable(m.content)
    /\ (resp.r.op = "send" /\ resp.status # 400) => C24_Acceptable(resp.r.content)
    /\ (resp.r.op = "send" /\ resp.status = 400) =>
          /\ ~C24_Acceptable(resp.r.content)
          /\ resp.code = "INVALID_MESSAGE"
          /\ Untouched

\* An empty content has been refused, as a request with a missing field.
C24_Witness ==
    /\ resp.r.op = "send"
    /\ resp.status = 400
    /\ resp.r.content = NoContent
    /\ resp.code = "INVALID_REQUEST"

\* A message holding a character followed by ten repeats of itself is stored.
C24_WitnessLineBreaks ==
    \E m \in messages :
        \E k \in 1..Len(m.content) :
            k + 10 <= Len(m.content) /\ \A j \in 1..10 : m.content[k + j] = m.content[k]

\* The part of the claim that holds: but for the empty content and for runs
\* of line breaks, a content is accepted exactly when it is acceptable, and a
\* refused one is answered InvalidMessage with nothing stored.
C24_ValidatesOtherContent ==
    LET plain(c) == c # NoContent /\ \A k \in 1..Len(c) : Dot(c[k]) IN
    /\ \A s \in Slots :
          (req[s].op = "send" /\ plain(req[s].content)) => C24_Acceptable(req[s].content)
    /\ (resp.r.op = "send" /\ resp.status # 400 /\ plain(resp.r.content)) =>
          C24_Acceptable(resp.r.content)
    /\ (resp.r.op = "send" /\ resp.status = 400 /\ resp.r.content # NoContent) =>
          /\ ~C24_Acceptable(resp.r.content)
          /\ resp.code = "INVALID_MESSAGE"
          /\ Untouched

\* The longest content has been accepted and stored.
C24_WitnessLongest ==
    \E m \in messages : Len(m.content) = 1000

\* A content of 1001 characters has been refused.
C24_WitnessTooLong ==
    resp.r.op = "send" /\ resp.code = "INVALID_MESSAGE" /\ Len(resp.r.content) = 1001

\* Twelve repeated characters have been refused.
C24_WitnessTwelve ==
    resp.r.op = "send" /\ resp.code = "INVALID_MESSAGE" /\ resp.r.content = Repeated("a", 12)


\* C25: the content of every stored message is normalized: it neither begins
\* nor ends with white space, and every run of white space inside it is one
\* single space.
C25_ContentIsNormalized ==
    \A m \in messages :
        LET c == m.content IN
        /\ c # << >>
        /\ ~IsSpace(c[1])
        /\ ~IsSpace(c[Len(c)])
        /\ \A k \in 1..Len(c) : IsSpace(c[k]) => c[k] = " "
        /\ \A k \in 1..(Len(c) - 1) : ~(IsSpace(c[k]) /\ IsSpace(c[k + 1]))

\* A message is stored with two spaces in a row inside its content.
C25_Witness ==
    \E m \in messages :
        \E k \in 1..(Len(m.content) - 1) : m.content[k] = " " /\ m.content[k + 1] = " "

\* The part of the claim that holds: a stored content is not empty and is
\* trimmed, whatever white space surrounded it in the request.
C25_ContentIsTrimmed ==
    \A m \in messages :
        m.content # << >> /\ ~IsSpace(m.content[1]) /\ ~IsSpace(m.content[Len(m.content)])

\* A message sent with white space around its content is stored.
C25_WitnessTrimmed ==
    \E m \in messages : m.content = <<"a", " ", "b">>


\* C26: delete-identity never reports a failure: for every well-formed id,
\* every immediate and reason and every store state, a store call failing
\* during the cascade or the marking included, the response is success-shaped.
C26_DeleteNeverFails ==
    (resp.r.op = "delete" /\ isValidId(resp.r.id)) => resp.status = 200

\* A delete has answered 500 after its cascade had removed messages.
C26_Witness ==
    /\ resp.r.op = "delete"
    /\ isValidId(resp.r.id)
    /\ resp.r.immediate
    /\ resp.r.removed # {}
    /\ resp.status = 500
    /\ resp.code = "DELETE_ERROR"

\* A soft delete has answered 500 with the identity left unmarked.
C26_WitnessMarking ==
    /\ resp.r.op = "delete"
    /\ ~resp.r.immediate
    /\ resp.status = 500
    /\ HasUser(users, resp.r.id)
    /\ ~users[resp.r.id][1].markedForDeletion

\* The part of the claim that holds: a delete fails with a store call only,
\* and a FormData beacon is answered success whatever the store does.
C26_BeaconNeverFails ==
    (resp.r.op = "delete" /\ isValidId(resp.r.id)) =>
        /\ resp.status \in {200, 500}
        /\ (resp.r.form /\ resp.r.given = "beacon") => resp.status = 200
        /\ resp.status = 500 =>
              (resp.code = "DELETE_ERROR" /\ ~(resp.r.form /\ resp.r.given = "beacon"))

\* A FormData beacon has been answered success after a store failure.
C26_WitnessBeacon ==
    resp.r.op = "delete" /\ resp.code = "CLEANUP_WITH_ERRORS"


\* C27: sweep failures are isolated.  When a store call of the purge of one
\* identity fails, the pass is not over: it goes on to the remaining
\* identities past grace and to the marking of the inactive ones.
C27_SweepFailuresAreIsolated ==
    [][(sweep.pc \in {"deleteMany", "deleteOne"} /\ resp'.code = "ERROR") =>
          sweep'.pc # "idle"]_vars

\* A pass has ended with the failure of a purge, leaving an inactive identity
\* unmarked.
C27_Witness ==
    /\ resp.code = "ERROR"
    /\ resp.r.id # NoId
    /\ sweep.pc = "idle"
    /\ Inactive(users, now - InactiveMinutes) # {}

\* The part of the claim that holds: a failure of the job changes neither
\* store and leaves the timer armed for the next pass.
C27_FailureLeavesTimerArmed ==
    [][resp'.code = "ERROR" =>
          /\ users' = users
          /\ messages' = messages
          /\ nextSweep' = nextSweep
          /\ nextSweep > now - SweepMinutes
          /\ sweep' = IdleSweep]_vars


\* The step just taken was a store call of the cleanup job.
JobDid(event, code) == event.r.op = "sweep" /\ event.code = code

\* C28: within one pass of the job the purge phase runs before the marking
\* phase.  An identity is purged by the job only from the purge loop; once the
\* pass has reached the inactive users it never returns to the purge loop;
\* the marking is the last store call of the pass, and the identities it marks
\* are still stored when it ends: the job purges nothing until a later pass.
C28_PurgeBeforeMark ==
    [][/\ JobDid(resp', "PURGED") => (sweep.pc = "deleteOne" /\ resp'.r.id = sweep.cur)
       /\ sweep.pc \in {"findInactive", "updateMany"} =>
             sweep'.pc \in {"findInactive", "updateMany", "idle"}
       /\ JobDid(resp', "MARKED") =>
             /\ sweep.pc = "updateMany"
             /\ sweep'.pc = "idle"
             /\ \A c \in sweep.list : users[c] # << >> =>
                   (users'[c] # << >> /\ \A k \in 1..Len(users'[c]) :
                        users'[c][k].markedForDeletion /\ users'[c][k].markedAt = sweep.ts)
       /\ sweep.pc = "idle" => (~JobDid(resp', "PURGED") /\ sweep'.pc \in {"idle", "findSoft"})
       /\ sweep'.pc = "findSoft" => sweep.pc \in {"idle", "findSoft"}]_vars

\* A pass that purged one identity has then marked the other one, which is
\* stored and marked when the pass is over.
C28_Witness ==
    /\ JobDid(resp, "MARKED")
    /\ sweep.pc = "idle"
    /\ \E c \in Codes : users[c] = << >>
    /\ \E c \in Codes :
          /\ users[c] # << >>
          /\ users[c][1].markedForDeletion
          /\ users[c][1].deleteReason = "inactivity"
          /\ users[c][1].markedAt = now


\* C29: whenever the job deletes an identity, that identity is at that moment
\* marked for deletion and its markedAt lies more than the grace window in the
\* past: in no interleaving with the handlers does the job purge an active
\* identity, one still within grace, or one created anew under a code the
\* pass selected before.
C29_PurgesOnlyPastGrace ==
    [][(JobDid(resp', "PURGED") /\ users[sweep.cur] # << >>) =>
          /\ users[sweep.cur][1].markedForDeletion
          /\ now - users[sweep.cur][1].markedAt > GraceMinutes]_vars

\* The job has deleted the messages of a code it selected and is about to
\* delete its identity, which was created after the selection and is active.
C29_Witness ==
    /\ sweep.pc = "deleteOne"
    /\ users[sweep.cur] # << >>
    /\ ~users[sweep.cur][1].markedForDeletion
    /\ users[sweep.cur][1].createdAt > sweep.cutoff

\* The job is about to delete an identity marked again within the grace
\* window.
C29_WitnessWithinGrace ==
    /\ sweep.pc = "deleteOne"
    /\ users[sweep.cur] # << >>
    /\ users[sweep.cur][1].markedForDeletion
    /\ now - users[sweep.cur][1].markedAt <= GraceMinutes

\* The part of the claim that holds: what the job selects for purging is, when
\* it is selected, marked for deletion for longer than the grace window.
C29_SelectsOnlyPastGrace ==
    [][(sweep.pc = "findSoft" /\ sweep'.pc = "deleteMany") =>
          \A c \in sweep'.list :
              \E k \in 1..Len(users[c]) :
                  /\ users[c][k].markedForDeletion
                  /\ now - users[c][k].markedAt > GraceMinutes]_vars


\* C30: whenever the job marks an identity for deletion by inactivity, the
\* identity is at that moment not marked already and its lastActive lies more
\* than the inactivity threshold in the past: an identity whose lastActive was
\* refreshed before the marking write is not marked by that pass.
C30_MarksOnlyInactive ==
    [][JobDid(resp', "MARKED") =>
          \A c \in sweep.list :
              users[c] # << >> =>
                  /\ ~users[c][1].markedForDeletion
                  /\ now - users[c][1].lastActive > InactiveMinutes]_vars

\* The job has marked for inactivity an identity whose lastActive is within
\* the threshold.
C30_Witness ==
    /\ JobDid(resp, "MARKED")
    /\ \E c \in Codes :
          /\ users[c] # << >>
          /\ users[c][1].markedForDeletion
          /\ users[c][1].deleteReason = "inactivity"
          /\ now - users[c][1].lastActive <= InactiveMinutes

\* The job is about to mark an identity that a request has marked since the
\* selection.
C30_WitnessMarkedAlready ==
    /\ sweep.pc = "updateMany"
    /\ \E c \in sweep.list :
          /\ users[c] # << >>
          /\ users[c][1].markedForDeletion
          /\ users[c][1].deleteReason = "manual"

\* The part of the claim that holds: what the job selects for marking is, when
\* it is selected, unmarked and inactive for longer than the threshold.
C30_SelectsOnlyInactive ==
    [][(sweep.pc = "findInactive" /\ sweep'.pc = "updateMany") =>
          /\ sweep'.list # {}
          /\ \A c \in sweep'.list :
                \E k \in 1..Len(users[c]) :
                    /\ ~users[c][k].markedForDeletion
                    /\ now - users[c][k].lastActive > InactiveMinutes]_vars


\* C31: two receives for one recipient that overlap in time can both select
\* a message before either deletes it.  The message is then in the messages
\* of both responses and in the deletedCount of both; and this happens to
\* overlapping calls only: the call that returns a message a second time had
\* begun before the call that returned it first was answered.
C31_OverlapDeliversTwice ==
    (resp.r.op = "receive" /\ resp.code = "OK" /\ resp.flag) =>
        /\ ~resp.r.solo
        /\ \E k \in 1..Len(resp.msgs) :
              resp.msgs[k].id \in delivered \ resp.r.seen
        /\ resp.n = Len(resp.msgs)
        /\ IdsOf(resp.msgs) \cap resp.r.seen = {}

\* A receive has returned, and counted as deleted, a message that an
\* overlapping receive had returned and counted already.
C31_Witness ==
    /\ resp.r.op = "receive"
    /\ resp.code = "OK"
    /\ resp.flag
    /\ resp.n > 0
    /\ resp.r.removed = {}


\* C32: messages that reference a purged identity exist only momentarily.  In
\* every state where no handler is between two store calls and the cleanup job
\* is between two passes, the sender and the recipient of every stored message
\* are stored identities.
C32_NoOrphanAtRest ==
    (NoRequest /\ NoSweep) =>
        \A m \in messages : HasUser(users, m.senderId) /\ HasUser(users, m.recipientId)

\* With nothing in progress, a message is stored whose recipient is not.
C32_Witness ==
    /\ NoRequest
    /\ NoSweep
    /\ \E m \in messages : ~HasUser(users, m.recipientId)

\* With nothing in progress, a message is stored whose sender is not.
C32_WitnessSender ==
    /\ NoRequest
    /\ NoSweep
    /\ \E m \in messages : ~HasUser(users, m.senderId)


\* C33: marking is idempotent.  A non-immediate delete, or the inactivity
\* marking of the job, applied to an identity that is marked for deletion
\* already leaves its markedAt and its deleteReason as they are: marking again
\* does not restart the grace window.
C33_MarkingIsIdempotent ==
    [][\A c \in Codes :
          (/\ Marked(users, c)
           /\ \/ (resp'.r.op = "delete" /\ resp'.code = "MARKED" /\ resp'.r.id = c)
              \/ (JobDid(resp', "MARKED") /\ c \in sweep.list)) =>
              /\ users'[c] # << >>
              /\ users'[c][1].markedAt = users[c][1].markedAt
              /\ users'[c][1].deleteReason = users[c][1].deleteReason]_vars

\* A second non-immediate delete has been answered and the identity's
\* markedAt is later than the time it became marked.
C33_Witness ==
    /\ resp.r.op = "delete"
    /\ resp.code = "MARKED"
    /\ Marked(users, resp.r.id)
    /\ users[resp.r.id][1].markedAt > users[resp.r.id][1].since

\* The part of the claim that holds: marking again leaves the identity marked
\* and changes no other field of it and no other identity.
C33_MarkingAgainKeepsTheRest ==
    [][\A c \in Codes :
          (Marked(users, c) /\ resp'.r.op = "delete" /\ resp'.code = "MARKED"
              /\ resp'.r.id = c) =>
              users' = [users EXCEPT ![c][1].markedAt = users'[c][1].markedAt,
                                     ![c][1].deleteReason = users'[c][1].deleteReason]]_vars


\* C34: in every state each identity has markedAt and deleteReason set if and
\* only if it is marked for deletion (an identity just allocated or reserved
\* is unmarked and has neither), and every deleteReason stored is one of
\* "inactivity", "manual", "beacon".
C34_MarkFieldsAgree ==
    \A c \in Codes : \A k \in 1..Len(users[c]) :
        LET d == users[c][k] IN
        /\ d.markedForDeletion <=> d.markedAt # NoDate
        /\ d.markedForDeletion <=> d.deleteReason # NoReason
        /\ d.deleteReason # NoReason => d.deleteReason \in {"inactivity", "manual", "beacon"}

\* An identity is stored with a deleteReason that is none of the three.
C34_Witness ==
    \E c \in Codes :
        /\ users[c] # << >>
        /\ users[c][1].markedForDeletion
        /\ users[c][1].deleteReason = OtherReason

\* The part of the claim that holds: markedAt and deleteReason are set exactly
\* on the identities marked for deletion.
C34_MarkFieldsSetTogether ==
    \A c \in Codes : \A k \in 1..Len(users[c]) :
        LET d == users[c][k] IN
        /\ d.markedForDeletion <=> d.markedAt # NoDate
        /\ d.markedForDeletion <=> d.deleteReason # NoReason


\* C35: an identity created under a code whose previous holder was purged
\* never obtains through receive a message sent before it was created: every
\* message of a successful receive is at least as recent as the identity that
\* receives it.
C35_NoInheritedMessage ==
    (resp.r.op = "receive" /\ resp.code = "OK" /\ HasUser(users, resp.r.id)) =>
        \A k \in 1..Len(resp.msgs) :
            resp.msgs[k].timestamp >= users[resp.r.id][1].createdAt

\* An identity has received a message older than itself.
C35_Witness ==
    /\ resp.r.op = "receive"
    /\ resp.code = "OK"
    /\ HasUser(users, resp.r.id)
    /\ \E k \in 1..Len(resp.msgs) :
          resp.msgs[k].timestamp < users[resp.r.id][1].createdAt


\* C36: receive never destroys an undelivered message.  Every message a
\* receive has removed is in the messages of its response, which reports
\* success; a receive that reports a failure has removed no message.
C36_RemovedIsDelivered ==
    (resp.r.op = "receive" /\ resp.slot # 0) =>
        /\ resp.status = 200 => resp.r.removed \subseteq IdsOf(resp.msgs)
        /\ resp.status # 200 => resp.r.removed = {}

\* A receive has answered 500 after its deleteMany had removed a message.
C36_Witness ==
    /\ resp.r.op = "receive"
    /\ resp.status = 500
    /\ resp.code = "PROCESS_ERROR"
    /\ resp.r.removed # {}
    /\ \A m \in messages : m.id \notin resp.r.removed

\* The part of the claim that holds: a receive that reports success has
\* removed only messages of its response, and one that fails before its
\* deleteMany has removed none.
C36_SuccessRemovesDelivered ==
    (resp.r.op = "receive" /\ resp.status = 200) => resp.r.removed \subseteq IdsOf(resp.msgs)


C37_WitnessOther ==
    /\ resp.r.op = "receive"
    /\ resp.code = "OK"
    /\ \E m \in messages : m.recipientId # resp.r.id /\ m \in resp.r.pre

\* A non-immediate delete of the recipient has left its message stored.
C37_WitnessSoft ==
    /\ resp.r.op = "delete"
    /\ resp.code = "MARKED"
    /\ \E m \in messages : m.recipientId = resp.r.id


\* C38: the lastActive of an identity never decreases while the identity is
\* stored, whatever the interleaving of the heartbeat, receive and send
\* handlers, each of which takes its timestamp when it issues its update.
C38_LastActiveNeverDecreases ==
    [][\A c \in Codes :
          (users[c] # <<>> /\ users'[c] # <<>>) =>
              users'[c][1].lastActive >= users[c][1].lastActive]_vars

\* A heartbeat that overlapped with another handler has been answered after
\* its update wrote a timestamp taken before the clock moved.
C38_Witness ==
    /\ resp.r.op = "heartbeat"
    /\ resp.status = 200
    /\ ~resp.r.solo
    /\ resp.r.touched = {IdA}
    /\ users[IdA][1].lastActive = resp.date
    /\ resp.date < now


\* C39: in every successful receive response pagination.totalMessages and
\* pagination.totalPages are non-negative, also when another receive for the
\* same recipient runs between this call's page query and its count query.
C39_PaginationNonNegative ==
    (resp.r.op = "receive" /\ resp.code = "OK") =>
        /\ resp.total >= 0
        /\ resp.pages >= 0

\* A receive that overlapped with another one has answered with a message and
\* with a negative number of messages and of pages.
C39_Witness ==
    /\ resp.r.op = "receive"
    /\ resp.code = "OK"
    /\ ~resp.r.solo
    /\ resp.n > 0
    /\ resp.total < 0
    /\ resp.pages < 0

\* What holds: a receive that ran alone, with a positive limit, reports
\* numbers that are not negative.
C39_AloneNonNegative ==
    (resp.r.op = "receive" /\ resp.code = "OK" /\ resp.r.solo /\ resp.limit > 0) =>
        /\ resp.total >= 0
        /\ resp.pages >= 0


====
